---- MODULE Spec2Model ----
(***************************************************************************)
(* State-machine model of the epoch-versioned state persistence layer:     *)
(*   - the epoch generator        (rust/meta/src/manager/epoch.rs)         *)
(*   - the managed mview state    (rust/server/.../mview/mview_state.rs)   *)
(*   - the managed value state    (rust/server/.../state_aggregation/      *)
(*                                 value.rs)                               *)
(*   - the pinned-snapshot record (rust/meta/src/hummock/model/            *)
(*                                 pinned_snapshot.rs)                     *)
(*   - the keyspace encoder       (rust/storage/src/keyspace.rs)           *)
(*   - the grpc exchange source   (rust/batch/src/execution/               *)
(*                                 exchange_source.rs)                     *)
(*   - wait_tcp                   (rust/riselab/src/wait_tcp.rs)           *)
(*   - the Kafka split reader     (src/connector/src/kafka/source/         *)
(*                                 reader.rs)                              *)
(* Every component has its own specification (SpecEpoch, SpecEpochMT,      *)
(* SpecMView, SpecAgg, SpecPinned, SpecKeyspace, SpecExchange, ...); the   *)
(* variables of the other components stay at their initial values.         *)
(***************************************************************************)
EXTENDS Integers, Sequences, FiniteSets

VARIABLES
    \* ---- epoch generator, one generate() call per step
    current_epoch,   \* MemEpochGenerator.current_epoch (the u64 inside Epoch)
    gen_calls,       \* history: generate() calls so far, counted up to 2
    last_now,        \* history: millisecond read by the latest generate()
    prev_now,        \* history: millisecond read by the call before it
    prev_ret,        \* history: epoch returned by the call before the latest
    ms_read,         \* history: millisecond of the latest clock reading
    ms_calls,        \* history: generate() calls that read ms_read in a row
    ms_init,         \* history: ms_read is still the reading of Epoch::init
    ms_overflowed,   \* history: a call of this run returned a later millisecond
    normal_operation, \* history: the clock never went back and no
                     \* millisecond had 2^16 generate() calls
    \* ---- epoch generator, threads stepping through generate()
    mutex,           \* holder of the Mutex around current_epoch, 0 when free
    mt_pc,           \* per thread: position inside generate()
    mt_tmp,          \* per thread: the value ce.next() computed
    mt_started,      \* generate() calls begun so far
    mt_returned,     \* history: the epochs returned, in order of return
    mt_clock,        \* history: <<latest clock reading, readings never went back>>
    \* ---- managed mview state
    memtable,        \* ManagedMViewState.memtable: set of <<pk, Option<Row>>>
    storage,         \* the state store behind ManagedMViewState.storage
    mv_op,           \* history: the latest operation on the mview state
    mv_ops,          \* history: operations on the mview state so far
    mv_window,       \* history: per pk, the latest mutation since the last flush
    mv_overwrote,    \* history: the latest overwrite of a pending mutation
    mv_latest,       \* history: per pk, the latest mutation ever issued
    mv_lost,         \* history: pks whose latest mutation a failed flush dropped
    mv_flushed,      \* history: what the latest flush did (while mv_op = "flush")
    mv_committed,    \* history: per pk, the row the flushes returning Ok left (or None)
    \* ---- managed value (aggregation) state
    agg_kind,        \* the aggregate descriptor: AggCall.kind
    debug_assertions,\* the build: whether debug_assert! is compiled in
    agg_state,       \* ManagedValueState.state: the internal single-value state
    is_dirty,        \* ManagedValueState.is_dirty
    agg_store,       \* the state store behind ManagedValueState.keyspace
    write_batch,     \* the caller's write batch
    agg_op,          \* history: <<the latest operation, its result>>
    agg_ops,         \* history: operations so far
    agg_applied,     \* history: apply_batch was called since new / last flush
    agg_flushed,     \* history: output at the latest flush still in write_batch
    agg_persisted,   \* history: output at the latest flush the store ingested
    \* ---- pinned-snapshot record of one hummock context
    context_id,      \* HummockContextPinnedSnapshot.context_id
    snapshot_id,     \* HummockContextPinnedSnapshot.snapshot_id: the pinned epochs
    trx,             \* the caller's Transaction: the operations staged so far
    meta_store,      \* the metadata store: key -> encoded record
    ps_op,           \* history: <<the latest operation, its argument or result>>
    ps_ops,          \* history: operations so far
    ps_prev,         \* history: snapshot_id before the latest pin / unpin
    ps_built,        \* history: the record started with an empty pinned set
    ps_staged,       \* history: update staged the record as it is now
    ps_synced,       \* history: the latest commit included such an update
    \* ---- keyspaces over shared state stores
    keyspaces,       \* the Keyspace objects alive: [store, prefix] each
    stores,          \* per store handle, the contents of that state store
    ks_origin,       \* history: per keyspace, its root and the segments pushed
    ks_written,      \* history: <<store, key, root>> of every key written
    ks_op,           \* history: the latest operation, its arguments and result
    ks_ops,          \* history: operations so far
    \* ---- grpc exchange source
    xs_pc,           \* "none" before create, then "created" or "failed"
    xs_stream,       \* GrpcExchangeSource.stream: the items not yet taken
    xs_closed,       \* the remote task has ended the stream
    xs_sent,         \* history: every item the remote task put on the stream
    xs_taken,        \* history: what each take_data call returned, in order
    \* ---- wait_tcp
    wt_timeout,      \* argument timeout: None or Some(seconds)
    wt_detect_failure, \* argument detect_failure
    wt_addr_ok,      \* whether the argument server parses as a socket address
    wt_pc,           \* "start", "loop" (about to connect) or "done"
    wt_result,       \* "" until wait_tcp returns, then "Ok" or "Err"
    wt_cause,        \* history: the line that returned the error
    wt_elapsed,      \* Instant::now() - start_time, in seconds
    wt_file,         \* whether the file at p exists
    wt_attempts,     \* history: connection attempts so far, counted to a cap
    wt_checked,      \* history: the elapsed time the latest timeout check saw
    wt_tick,         \* history: parity of the iterations, so that an iteration
                     \* is a step also when the counters are at their caps
    \* ---- KafkaSplitReader
    stop_offset,     \* assigned_split.stop_offset, a KafkaOffset
    partition_queue, \* the items the partition queue will yield
    kr_ended,        \* the partition queue has expired
    kr_assigned,     \* the consumer still has its partition assigned
    kr_result,       \* what the latest next() returned
    kr_chunk,        \* history: the chunk the latest next() took
    kr_assign_ok,    \* history: whether consumer.assign succeeded, if called
    kr_ops           \* history: next() calls so far

epochHist ==
    <<gen_calls, last_now, prev_now, prev_ret,
      ms_read, ms_calls, ms_init, ms_overflowed, normal_operation>>
mtVars == <<mutex, mt_pc, mt_tmp, mt_started, mt_returned, mt_clock>>
mvVars ==
    <<memtable, storage, mv_op, mv_ops, mv_window, mv_overwrote, mv_latest, mv_lost,
      mv_flushed, mv_committed>>
aggVars ==
    <<agg_kind, debug_assertions, agg_state, is_dirty, agg_store, write_batch,
      agg_op, agg_ops, agg_applied, agg_flushed, agg_persisted>>
psVars ==
    <<context_id, snapshot_id, trx, meta_store, ps_op, ps_ops, ps_prev, ps_built,
      ps_staged, ps_synced>>
ksVars == <<keyspaces, stores, ks_origin, ks_written, ks_op, ks_ops>>
xsVars == <<xs_pc, xs_stream, xs_closed, xs_sent, xs_taken>>
wtVars ==
    <<wt_timeout, wt_detect_failure, wt_addr_ok, wt_pc, wt_result, wt_cause,
      wt_elapsed, wt_file, wt_attempts, wt_checked, wt_tick>>
krVars ==
    <<stop_offset, partition_queue, kr_ended, kr_assigned, kr_result, kr_chunk,
      kr_assign_ok, kr_ops>>
vars ==
    <<current_epoch, epochHist, mtVars, mvVars, aggVars, psVars, ksVars, xsVars,
      wtVars, krVars>>

\* What the actions of one component leave alone.
notEpochVars ==
    <<mtVars, mvVars, aggVars, psVars, ksVars, xsVars,
      wtVars, krVars>>
notMTVars ==
    <<epochHist, mvVars, aggVars, psVars, ksVars, xsVars,
      wtVars, krVars>>
notMViewVars ==
    <<current_epoch, epochHist, mtVars, aggVars, psVars, ksVars, xsVars,
      wtVars, krVars>>
notAggVars ==
    <<current_epoch, epochHist, mtVars, mvVars, psVars, ksVars, xsVars,
      wtVars, krVars>>
notPinnedVars ==
    <<current_epoch, epochHist, mtVars, mvVars, aggVars, ksVars, xsVars,
      wtVars, krVars>>
notKeyspaceVars ==
    <<current_epoch, epochHist, mtVars, mvVars, aggVars, psVars, xsVars,
      wtVars, krVars>>
notExchangeVars ==
    <<current_epoch, epochHist, mtVars, mvVars, aggVars, psVars, ksVars,
      wtVars, krVars>>
notWaitTcpVars ==
    <<current_epoch, epochHist, mtVars, mvVars, aggVars, psVars, ksVars,
      xsVars, krVars>>
notKafkaVars ==
    <<current_epoch, epochHist, mtVars, mvVars, aggVars, psVars, ksVars,
      xsVars, wtVars>>

(***************************************************************************)
(* Bounds of the model.                                                    *)
(***************************************************************************)
\* The wall clock reads a millisecond in 0..MaxMillis.
MaxMillis == 2
\* Threads calling generate() concurrently, and the calls they make in all.
NumThreads == 2
MaxCalls == 3

Millis == 0..MaxMillis
Threads == 1..NumThreads

(***************************************************************************)
(* Epoch (epoch.rs).  Values stay far below 2^64 for the clock readings    *)
(* of the model, so the u64 arithmetic never wraps here.                   *)
(***************************************************************************)
EPOCH_PHYSICAL_SHIFT_BITS == 16

\* x << EPOCH_PHYSICAL_SHIFT_BITS
ShiftLeft(x) == x * (2 ^ EPOCH_PHYSICAL_SHIFT_BITS)

\* Epoch::physical_time: self.0 >> EPOCH_PHYSICAL_SHIFT_BITS
physical_time(e) == e \div (2 ^ EPOCH_PHYSICAL_SHIFT_BITS)

\* The logical component: the low EPOCH_PHYSICAL_SHIFT_BITS bits.
logical(e) == e % (2 ^ EPOCH_PHYSICAL_SHIFT_BITS)

\* Epoch::init with the clock reading physical_now
Epoch_init(physical_now) == ShiftLeft(physical_now)

\* The number of values of the logical component
LogicalRange == 2 ^ EPOCH_PHYSICAL_SHIFT_BITS

\* Mutant of Epoch::next: the millisecond read is ignored.
Epoch_next_NeverReset(e, physical_now) == e + 1

\* Mutant of Epoch::next: the increment wraps within the logical bits.
Epoch_next_WrapLogical(e, physical_now) ==
    IF physical_now = physical_time(e)
    THEN ShiftLeft(physical_time(e)) + logical(e + 1)
    ELSE ShiftLeft(physical_now)

\* Mutant of Epoch::next: the comparison with the stored epoch is dropped.
Epoch_next_AlwaysReset(e, physical_now) == ShiftLeft(physical_now)

\* Epoch::next with the clock reading physical_now
Epoch_next(e, physical_now) ==
    IF physical_now = physical_time(e)
    THEN e + 1
    ELSE ShiftLeft(physical_now)

(***************************************************************************)
(* MemEpochGenerator, sequential view: the mutex makes each generate()     *)
(* one step.  The clock reading is an input of the call: SystemTime is     *)
(* not monotonic, so any millisecond may be read.                          *)
(***************************************************************************)
IdleEpoch ==
    /\ current_epoch = 0
    /\ gen_calls = 0
    /\ last_now = 0
    /\ prev_now = 0
    /\ prev_ret = 0
    /\ ms_read = 0
    /\ ms_calls = 0
    /\ ms_init = TRUE
    /\ ms_overflowed = FALSE
    /\ normal_operation = TRUE

InitEpoch ==
    /\ \E physical_now \in Millis :
           /\ current_epoch = Epoch_init(physical_now)
           /\ ms_read = physical_now
    /\ gen_calls = 0
    /\ last_now = 0
    /\ prev_now = 0
    /\ prev_ret = 0
    /\ ms_calls = 0
    /\ ms_init = TRUE
    /\ ms_overflowed = FALSE
    /\ normal_operation = TRUE

generate(physical_now) ==
    /\ current_epoch' = Epoch_next(current_epoch, physical_now)
    /\ gen_calls' = IF gen_calls < 2 THEN gen_calls + 1 ELSE 2
    /\ last_now' = physical_now
    /\ prev_now' = IF gen_calls = 0 THEN 0 ELSE last_now
    /\ prev_ret' = IF gen_calls = 0 THEN 0 ELSE current_epoch
    /\ ms_read' = physical_now
    /\ ms_calls' = IF physical_now # ms_read THEN 1
                   ELSE IF ms_calls <= LogicalRange THEN ms_calls + 1
                   ELSE ms_calls
    /\ ms_init' = (ms_init /\ physical_now = ms_read)
    /\ ms_overflowed' =
           \/ physical_now = ms_read /\ ms_overflowed
           \/ physical_time(current_epoch') > physical_now
    /\ normal_operation' =
           /\ normal_operation
           /\ physical_now >= ms_read
           /\ ms_calls' < LogicalRange
    /\ UNCHANGED notEpochVars

NextEpoch == \E physical_now \in Millis : generate(physical_now)

(***************************************************************************)
(* MemEpochGenerator, threads: taking the lock, ce.next(), the store into  *)
(* the cell, and the return with the drop of the guard are separate steps  *)
(* of each thread.                                                         *)
(***************************************************************************)
IdleMT ==
    /\ mutex = 0
    /\ mt_pc = [t \in Threads |-> "idle"]
    /\ mt_tmp = [t \in Threads |-> 0]
    /\ mt_started = 0
    /\ mt_returned = << >>
    /\ mt_clock = <<0, TRUE>>

InitMT ==
    /\ mutex = 0
    /\ mt_pc = [t \in Threads |-> "idle"]
    /\ mt_tmp = [t \in Threads |-> 0]
    /\ mt_started = 0
    /\ mt_returned = << >>
    /\ mt_clock = <<physical_time(current_epoch), TRUE>>

\* Mutex::lock succeeds only while nobody holds the mutex.
MutexAvailable == mutex = 0

\* self.current_epoch.lock().unwrap()
mt_lock(t) ==
    /\ mt_pc[t] = "idle"
    /\ mt_started < MaxCalls
    /\ MutexAvailable
    /\ mutex' = t
    /\ mt_pc' = [mt_pc EXCEPT ![t] = "locked"]
    /\ mt_started' = mt_started + 1
    /\ UNCHANGED <<current_epoch, mt_tmp, mt_returned, mt_clock, notMTVars>>

\* ce.next(): reads the clock and the current epoch
mt_next(t, physical_now) ==
    /\ mt_pc[t] = "locked"
    /\ mt_tmp' = [mt_tmp EXCEPT ![t] = Epoch_next(current_epoch, physical_now)]
    /\ mt_clock' = <<physical_now, mt_clock[2] /\ physical_now >= mt_clock[1]>>
    /\ mt_pc' = [mt_pc EXCEPT ![t] = "computed"]
    /\ UNCHANGED <<current_epoch, mutex, mt_started, mt_returned, notMTVars>>

\* the assignment of the computed value to the cell
mt_store(t) ==
    /\ mt_pc[t] = "computed"
    /\ current_epoch' = mt_tmp[t]
    /\ mt_pc' = [mt_pc EXCEPT ![t] = "stored"]
    /\ UNCHANGED <<mutex, mt_tmp, mt_started, mt_returned, mt_clock, notMTVars>>

\* the cell is read for the result, and the guard is dropped
mt_return(t) ==
    /\ mt_pc[t] = "stored"
    /\ mt_returned' = Append(mt_returned, current_epoch)
    /\ mutex' = IF mutex = t THEN 0 ELSE mutex
    /\ mt_pc' = [mt_pc EXCEPT ![t] = "idle"]
    /\ UNCHANGED <<current_epoch, mt_tmp, mt_started, mt_clock, notMTVars>>

NextMT ==
    \E t \in Threads :
        \/ mt_lock(t)
        \/ \E physical_now \in Millis : mt_next(t, physical_now)
        \/ mt_store(t)
        \/ mt_return(t)

(***************************************************************************)
(* Rows, options and the serializers the mview state calls.                *)
(* An Option is a sequence of length 0 (None) or 1 (Some).  A Row is the   *)
(* sequence of its datums; the datums of the model are non-negative i32.   *)
(***************************************************************************)
\* Columns of the view's schema (schema.len()).
SchemaLen == 2
\* Primary keys 1..MaxPk, and values 1..MaxVal for the non-key columns.
MaxPk == 3
MaxVal == 2
\* put, delete and flush calls in one run.
MaxMvOps == 7

None == << >>
Some(x) == <<x>>

\* Row(vec![Some(k)]): the primary-key row of key k (pk_columns = [0])
PkRow(k) == <<k>>
\* a row of the view: the key in column 0, v in the other columns
ValueRow(k, v) == [i \in 1..SchemaLen |-> IF i = 1 THEN k ELSE v]

PkRows == {PkRow(k) : k \in 1..MaxPk}
ValueRows(pk) == {ValueRow(pk[1], v) : v \in 1..MaxVal}

\* ManagedMViewState.prefix, fixed at construction: b"test-prefix-42"
mv_prefix == <<116, 101, 115, 116, 45, 112, 114, 101, 102, 105, 120, 45, 52, 50>>

\* An i32 in the order-preserving encoding: big-endian, sign bit flipped.
I32Bytes(x) ==
    <<128 + ((x \div 16777216) % 128), (x \div 65536) % 256,
      (x \div 256) % 256, x % 256>>

\* A non-null datum: the tag byte 1, then the value.
serialize_datum(d) == <<1>> \o I32Bytes(d)

RECURSIVE serialize_pk(_)
serialize_pk(pk) ==
    IF pk = << >> THEN << >>
    ELSE serialize_datum(Head(pk)) \o serialize_pk(Tail(pk))

serialize_cell_idx(cell_idx) == I32Bytes(cell_idx)

serialize_cell(cell) == serialize_datum(cell)

(***************************************************************************)
(* The state store: a function from the live keys to their values.         *)
(***************************************************************************)
EmptyStore == << >>

StorePut(s, key, value) ==
    [k \in (DOMAIN s) \cup {key} |-> IF k = key THEN value ELSE s[k]]

StoreDelete(s, key) == [k \in (DOMAIN s) \ {key} |-> s[k]]

\* StateStore::ingest_batch, successful: the pairs are applied in order,
\* a None value deletes the key.
RECURSIVE ingest_batch(_, _)
ingest_batch(s, batch) ==
    IF batch = << >> THEN s
    ELSE LET kv == Head(batch) IN
         ingest_batch(IF kv[2] = None
                      THEN StoreDelete(s, kv[1])
                      ELSE StorePut(s, kv[1], kv[2][1]),
                      Tail(batch))

IsPrefix(p, k) == Len(p) <= Len(k) /\ SubSeq(k, 1, Len(p)) = p

\* StateStore::scan(prefix, None): the live keys under the prefix
scan(s, prefix) == {k \in DOMAIN s : IsPrefix(prefix, k)}

(***************************************************************************)
(* ManagedMViewState (mview_state.rs).                                     *)
(***************************************************************************)
\* Mutant of HashMap::insert: the entries of the other keys are dropped.
HashMap_insert_Alone(m, k, v) == {<<k, v>>}

\* Mutant of HashMap::insert: the earlier entry of the key is kept.
HashMap_insert_Accumulate(m, k, v) == m \cup {<<k, v>>}

\* HashMap::insert: the value replaces the one the key had.
HashMap_insert(m, k, v) == {e \in m : e[1] # k} \cup {<<k, v>>}

\* The orders in which HashMap::drain can yield the entries of m.
DrainOrders(m) ==
    {o \in [1..Cardinality(m) -> m] :
        \A i, j \in 1..Cardinality(m) : i # j => o[i] # o[j]}

\* Mutant of the drain: entries not yet yielded stay in the map.
AfterDrain_KeepRest(drained, yielded) ==
    {drained[i] : i \in (yielded + 1)..Len(drained)}

\* The map after the Drain iterator is dropped, having yielded the first
\* `yielded` entries of `drained`: dropping it removes the rest as well.
AfterDrain(drained, yielded) == {}

\* Mutant of the cell key: the primary key is left out.
CellKey_NoPk(pk, cell_idx) == mv_prefix \o serialize_cell_idx(cell_idx)

\* Mutant of the cell key: the column index is left out.
CellKey_NoColumn(pk, cell_idx) == mv_prefix \o serialize_pk(pk)

\* the key of cell cell_idx of the row with primary key pk
CellKey(pk, cell_idx) ==
    mv_prefix \o serialize_pk(pk) \o serialize_cell_idx(cell_idx)

\* Mutant of the inner loop: a deleted row pushes nothing.
RECURSIVE CellPairs_SkipDeletes(_, _, _)
CellPairs_SkipDeletes(pk, cells, cell_idx) ==
    IF cells = None \/ cell_idx >= SchemaLen THEN << >>
    ELSE << <<CellKey(pk, cell_idx), Some(serialize_cell(cells[1][cell_idx + 1]))>> >>
         \o CellPairs_SkipDeletes(pk, cells, cell_idx + 1)

\* Mutant of the inner loop: a deleted row becomes one deletion of the
\* row key instead of one deletion per cell.
RECURSIVE CellPairs_RowDelete(_, _, _)
CellPairs_RowDelete(pk, cells, cell_idx) ==
    IF cells = None
    THEN << <<mv_prefix \o serialize_pk(pk), None>> >>
    ELSE IF cell_idx >= SchemaLen THEN << >>
    ELSE << <<CellKey(pk, cell_idx), Some(serialize_cell(cells[1][cell_idx + 1]))>> >>
         \o CellPairs_RowDelete(pk, cells, cell_idx + 1)

\* flush, inner loop: the pairs pushed for one memtable entry, for the
\* cells cell_idx .. schema.len() - 1
RECURSIVE CellPairs(_, _, _)
CellPairs(pk, cells, cell_idx) ==
    IF cell_idx >= SchemaLen THEN << >>
    ELSE << <<CellKey(pk, cell_idx),
              IF cells = None
              THEN None
              ELSE Some(serialize_cell(cells[1][cell_idx + 1]))>> >>
         \o CellPairs(pk, cells, cell_idx + 1)

\* flush, outer loop: the batch built from the drained entries
RECURSIVE FlushBatch(_)
FlushBatch(drained) ==
    IF drained = << >> THEN << >>
    ELSE CellPairs(Head(drained)[1], Head(drained)[2], 0)
         \o FlushBatch(Tail(drained))

\* Mutant of flush's result: the ingest error is dropped.
FlushResult_SwallowIngestError(ser_fail_at, ingest_ok) ==
    IF ser_fail_at > 0 THEN "SerializeError" ELSE "Ok"

\* What flush returns: a serializer's error leaves through `?`, the result
\* of ingest_batch is returned with its error mapped to InternalError.
FlushResult(ser_fail_at, ingest_ok) ==
    IF ser_fail_at > 0 THEN "SerializeError"
    ELSE IF ingest_ok THEN "Ok" ELSE "InternalError"

\* Mutant of flush: ingest_batch is called again after it failed.
FlushIngestCalls_Retry(ser_fail_at, ingest_ok) ==
    IF ser_fail_at > 0 THEN 0 ELSE IF ingest_ok THEN 1 ELSE 2

\* The ingest_batch calls of one flush: none when a serializer failed
\* inside the loop, else the one after the loop.
FlushIngestCalls(ser_fail_at, ingest_ok) ==
    IF ser_fail_at > 0 THEN 0 ELSE 1

NoMutation == [pk \in PkRows |-> None]

KindOf(mutation) == IF mutation = None THEN "delete" ELSE "put"

\* the latest overwrite in the window, after `kind` is issued for pk
Overwrote(pk, kind) ==
    IF mv_window[pk] = None THEN mv_overwrote
    ELSE <<pk, KindOf(mv_window[pk][1]), kind>>

NoFlush ==
    [result |-> "", ser_failed |-> FALSE, ingest_failed |-> FALSE,
     ingest_calls |-> 0, batch |-> << >>, pending |-> {},
     window |-> NoMutation, overwrote |-> << >>, store_before |-> EmptyStore, lost_before |-> {}]

\* ManagedMViewState::new over an empty store
InitMView ==
    /\ memtable = {}
    /\ storage = EmptyStore
    /\ mv_op = "new"
    /\ mv_ops = 0
    /\ mv_window = NoMutation
    /\ mv_overwrote = << >>
    /\ mv_latest = NoMutation
    /\ mv_lost = {}
    /\ mv_flushed = NoFlush
    /\ mv_committed = NoMutation

IdleMView == InitMView

\* ManagedMViewState::put
put(pk, value) ==
    /\ mv_ops < MaxMvOps
    /\ memtable' = HashMap_insert(memtable, pk, Some(value))
    /\ mv_op' = "put"
    /\ mv_ops' = mv_ops + 1
    /\ mv_window' = [mv_window EXCEPT ![pk] = Some(Some(value))]
    /\ mv_overwrote' = Overwrote(pk, "put")
    /\ mv_latest' = [mv_latest EXCEPT ![pk] = Some(Some(value))]
    /\ mv_lost' = mv_lost \ {pk}
    /\ mv_flushed' = NoFlush
    /\ UNCHANGED <<storage, mv_committed, notMViewVars>>

\* ManagedMViewState::delete
delete(pk) ==
    /\ mv_ops < MaxMvOps
    /\ memtable' = HashMap_insert(memtable, pk, None)
    /\ mv_op' = "delete"
    /\ mv_ops' = mv_ops + 1
    /\ mv_window' = [mv_window EXCEPT ![pk] = Some(None)]
    /\ mv_overwrote' = Overwrote(pk, "delete")
    /\ mv_latest' = [mv_latest EXCEPT ![pk] = Some(None)]
    /\ mv_lost' = mv_lost \ {pk}
    /\ mv_flushed' = NoFlush
    /\ UNCHANGED <<storage, mv_committed, notMViewVars>>

\* ManagedMViewState::flush.  drained: the order the drain yields the
\* entries in; ser_fail_at: the entry at which a serializer fails (0: none
\* does); ingest_ok: whether the store accepts the batch (it is not asked
\* when a serializer failed).
flush(drained, ser_fail_at, ingest_ok) ==
    LET batch == FlushBatch(drained)
        calls == FlushIngestCalls(ser_fail_at, ingest_ok)
        result == FlushResult(ser_fail_at, ingest_ok)
        yielded == IF ser_fail_at > 0 THEN ser_fail_at ELSE Len(drained)
        failed == ser_fail_at > 0 \/ ~ingest_ok
    IN  /\ mv_ops < MaxMvOps
        /\ memtable' = AfterDrain(drained, yielded)
        /\ storage' = IF calls > 0 /\ ingest_ok
                      THEN ingest_batch(storage, batch)
                      ELSE storage
        /\ mv_op' = "flush"
        /\ mv_ops' = mv_ops + 1
        /\ mv_window' = NoMutation
        /\ mv_overwrote' = << >>
        /\ mv_lost' = IF failed
                      THEN mv_lost \cup {e[1] : e \in memtable}
                      ELSE mv_lost
        /\ mv_flushed' =
               [result |-> result,
                ser_failed |-> ser_fail_at > 0,
                ingest_failed |-> (ser_fail_at = 0 /\ ~ingest_ok),
                ingest_calls |-> calls,
                batch |-> IF calls > 0 THEN batch ELSE << >>,
                pending |-> memtable,
                window |-> mv_window,
                overwrote |-> mv_overwrote,
                store_before |-> storage,
                lost_before |-> mv_lost]
        /\ mv_committed' =
               IF failed THEN mv_committed
               ELSE [pk \in PkRows |->
                        IF mv_window[pk] = None THEN mv_committed[pk]
                        ELSE mv_window[pk][1]]
        /\ UNCHANGED <<mv_latest, notMViewVars>>

NextMView ==
    \/ \E pk \in PkRows : \E value \in ValueRows(pk) : put(pk, value)
    \/ \E pk \in PkRows : delete(pk)
    \/ \E drained \in DrainOrders(memtable) :
           \/ \E ingest_ok \in BOOLEAN : flush(drained, 0, ingest_ok)
           \/ \E ser_fail_at \in 1..Len(drained) :
                  flush(drained, ser_fail_at, TRUE)

(***************************************************************************)
(* The single-value aggregation states wrapped by ManagedValueState, and   *)
(* the datum serializers.  A Datum is an Option: None is NULL.             *)
(***************************************************************************)
\* Rows of one batch, the values 1..MaxDatum of its column, and the
\* operations on one managed state in one run.
MaxRows == 1
MaxDatum == 1
MaxAggOps == 4

AggKinds == {"count", "sum"}
Ops == {"Insert", "Delete"}
Datums == {None} \cup {Some(v) : v \in 1..MaxDatum}

\* the four low bytes of a non-negative value below 2^31, big-endian
Low4(x) ==
    <<(x \div 16777216) % 256, (x \div 65536) % 256, (x \div 256) % 256, x % 256>>

\* An i64 in the order-preserving encoding: big-endian two's complement
\* with the sign bit flipped (values of the model lie within 32 bits).
I64Bytes(x) ==
    IF x >= 0
    THEN <<128, 0, 0, 0>> \o Low4(x)
    ELSE <<127, 255, 255, 255>> \o [i \in 1..4 |-> 255 - Low4(-x - 1)[i]]

\* serialize_datum_into: the tag byte 0 for NULL, else 1 and the value
serialize_datum_into(datum) ==
    IF datum = None THEN <<0>> ELSE <<1>> \o I64Bytes(datum[1])

FromLow4(b) == b[1] * 16777216 + b[2] * 65536 + b[3] * 256 + b[4]

\* deserialize_datum_from for an Int64 return type
deserialize_datum_from(bytes) ==
    IF bytes[1] = 0 THEN None
    ELSE IF bytes[2] >= 128
         THEN Some(FromLow4(SubSeq(bytes, 6, 9)))
         ELSE Some(-1 - FromLow4([i \in 1..4 |-> 255 - bytes[5 + i]]))

\* create_streaming_agg_state: a fresh state without datum, else the state
\* rehydrated from the persisted datum
create_streaming_agg_state(kind, data) ==
    IF data = None
    THEN (IF kind = "count" THEN Some(0) ELSE None)
    ELSE data[1]

\* one row applied to the single-value state
ApplyRow(kind, acc, op, value) ==
    IF value = None THEN acc
    ELSE LET sign == IF op = "Insert" THEN 1 ELSE -1
             delta == IF kind = "count" THEN sign ELSE sign * value[1]
         IN  Some((IF acc = None THEN 0 ELSE acc[1]) + delta)

\* StreamingAggStateImpl::apply_batch on the rows i..n of the batch
RECURSIVE ApplyRows(_, _, _, _, _, _, _)
ApplyRows(kind, acc, ops, visibility, column, i, n) ==
    IF i > n THEN acc
    ELSE ApplyRows(kind,
                   IF visibility = None \/ visibility[1][i]
                   THEN ApplyRow(kind, acc, ops[i], column[i])
                   ELSE acc,
                   ops, visibility, column, i + 1, n)

\* all sequences over S of length 0..n
SeqsUpTo(S, n) == UNION {[1..k -> S] : k \in 0..n}

\* The batch of test_managed_value_state: four inserts of 0, 1, 2, NULL.
TestOps == <<"Insert", "Insert", "Insert", "Insert">>
TestColumn == <<Some(0), Some(1), Some(2), None>>

\* The batches (ops, visibility, column) a caller applies: every batch of
\* at most MaxRows rows, and the batch of the test.
Batches ==
    {<<ops, visibility, column>> :
        ops \in SeqsUpTo(Ops, MaxRows),
        visibility \in {None} \cup {Some(b) : b \in SeqsUpTo(BOOLEAN, MaxRows)},
        column \in SeqsUpTo(Datums, MaxRows)}
    \cup {<<TestOps, None, TestColumn>>}

(***************************************************************************)
(* ManagedValueState (value.rs).                                           *)
(***************************************************************************)
\* Keyspace.prefix of the managed state: b"233333"
agg_prefix == <<50, 51, 51, 51, 51, 51>>

\* verify_batch: ops, visibility (if any) and every column have one length
verify_batch(ops, visibility, data) ==
    LET all_lengths ==
            {Len(ops)}
            \cup (IF visibility = None THEN {} ELSE {Len(visibility[1])})
            \cup {Len(data[x]) : x \in 1..Len(data)}
    IN  \A a, b \in all_lengths : a = b

\* Keyspace::get of the single-value keyspace: the value under the prefix
keyspace_get(s) == IF agg_prefix \in DOMAIN s THEN Some(s[agg_prefix]) ELSE None

\* Mutant of new: the persisted value is not read.
NewState_Fresh(kind, s) == create_streaming_agg_state(kind, None)

\* new: the internal state, from the value the keyspace holds
NewState(kind, s) ==
    LET raw_data == keyspace_get(s)
        data == IF raw_data # None
                THEN Some(deserialize_datum_from(raw_data[1]))
                ELSE None
    IN  create_streaming_agg_state(kind, data)

\* Mutant of apply_batch: the state is not marked.
DirtyAfterApply_Unchanged == is_dirty

\* apply_batch: self.is_dirty = true
DirtyAfterApply == TRUE

\* Mutant of flush: the flag is not cleared.
DirtyAfterFlush_Unchanged == is_dirty

\* flush: self.is_dirty = false
DirtyAfterFlush == FALSE

\* Mutant of flush: the value is written under another key.
FlushEntry_OtherKey(v) == <<agg_prefix \o <<0>>, Some(serialize_datum_into(v))>>

\* Mutant of flush: a deletion of the key is pushed.
FlushEntry_Deletion(v) == <<agg_prefix, None>>

\* flush: the pair pushed to the write batch for the output v
FlushEntry(v) == <<agg_prefix, Some(serialize_datum_into(v))>>

InitAgg ==
    /\ agg_kind \in AggKinds
    /\ debug_assertions \in BOOLEAN
    /\ agg_store = EmptyStore
    /\ agg_state = NewState(agg_kind, EmptyStore)
    /\ is_dirty = FALSE
    /\ write_batch = << >>
    /\ agg_op = <<"new", "Ok">>
    /\ agg_ops = 0
    /\ agg_applied = FALSE
    /\ agg_flushed = None
    /\ agg_persisted = None

IdleAgg ==
    /\ agg_kind = "count"
    /\ debug_assertions = FALSE
    /\ agg_store = EmptyStore
    /\ agg_state = Some(0)
    /\ is_dirty = FALSE
    /\ write_batch = << >>
    /\ agg_op = <<"new", "Ok">>
    /\ agg_ops = 0
    /\ agg_applied = FALSE
    /\ agg_flushed = None
    /\ agg_persisted = None

AggRunning == agg_ops < MaxAggOps /\ agg_op[2] # "panic"

\* ManagedValueState::new on the same keyspace and aggregate descriptor;
\* the state object it returns replaces the one held before.
agg_new ==
    /\ AggRunning
    /\ agg_state' = NewState(agg_kind, agg_store)
    /\ is_dirty' = FALSE
    /\ agg_op' = <<"new", "Ok">>
    /\ agg_ops' = agg_ops + 1
    /\ agg_applied' = FALSE
    /\ UNCHANGED <<agg_kind, debug_assertions, agg_store, write_batch,
                   agg_flushed, agg_persisted, notAggVars>>

\* ManagedValueState::apply_batch.  applied: the rows the internal state
\* applied, all of them unless it returned an error.
agg_apply_batch(ops, visibility, data, applied) ==
    /\ AggRunning
    /\ verify_batch(ops, visibility, data)
    /\ is_dirty' = DirtyAfterApply
    /\ agg_state' = ApplyRows(agg_kind, agg_state, ops, visibility, data[1],
                              1, applied)
    /\ agg_op' = <<"apply_batch", IF applied = Len(ops) THEN "Ok" ELSE "Err">>
    /\ agg_ops' = agg_ops + 1
    /\ agg_applied' = TRUE
    /\ UNCHANGED <<agg_kind, debug_assertions, agg_store, write_batch,
                   agg_flushed, agg_persisted, notAggVars>>

\* ManagedValueState::get_output
get_output == agg_state

agg_get_output ==
    /\ AggRunning
    /\ agg_op' = <<"get_output", "Ok">>
    /\ agg_ops' = agg_ops + 1
    /\ UNCHANGED <<agg_kind, debug_assertions, agg_store, agg_state, is_dirty,
                   write_batch, agg_applied, agg_flushed, agg_persisted,
                   notAggVars>>

\* ManagedValueState::flush into the caller's write batch.  failure: "" or
\* the step that returned an error ("get_output", "serialize").
agg_flush(failure) ==
    /\ AggRunning
    /\ agg_ops' = agg_ops + 1
    /\ IF debug_assertions /\ ~is_dirty
       THEN \* debug_assert!(self.is_dirty) panics
            /\ agg_op' = <<"flush", "panic">>
            /\ UNCHANGED <<is_dirty, write_batch, agg_applied, agg_flushed>>
       ELSE IF failure # ""
       THEN /\ agg_op' = <<"flush", "Err">>
            /\ UNCHANGED <<is_dirty, write_batch, agg_applied, agg_flushed>>
       ELSE /\ write_batch' = Append(write_batch, FlushEntry(get_output))
            /\ is_dirty' = DirtyAfterFlush
            /\ agg_op' = <<"flush", "Ok">>
            /\ agg_applied' = FALSE
            /\ agg_flushed' = Some(get_output)
    /\ UNCHANGED <<agg_kind, debug_assertions, agg_store, agg_state,
                   agg_persisted, notAggVars>>

\* The caller hands the write batch to StateStore::ingest_batch.
agg_ingest(ingest_ok) ==
    /\ AggRunning
    /\ agg_ops' = agg_ops + 1
    /\ agg_store' = IF ingest_ok THEN ingest_batch(agg_store, write_batch)
                    ELSE agg_store
    /\ write_batch' = << >>
    /\ agg_op' = <<"ingest_batch", IF ingest_ok THEN "Ok" ELSE "Err">>
    /\ agg_flushed' = None
    /\ agg_persisted' = IF ingest_ok /\ agg_flushed # None
                        THEN agg_flushed ELSE agg_persisted
    /\ UNCHANGED <<agg_kind, debug_assertions, agg_state, is_dirty,
                   agg_applied, notAggVars>>

NextAgg ==
    \/ agg_new
    \/ \E b \in Batches : \E applied \in 0..Len(b[1]) :
           agg_apply_batch(b[1], b[2], <<b[3]>>, applied)
    \/ agg_get_output
    \/ \E failure \in {"", "get_output", "serialize"} : agg_flush(failure)
    \/ \E ingest_ok \in BOOLEAN : agg_ingest(ingest_ok)

(***************************************************************************)
(* HummockContextPinnedSnapshot (pinned_snapshot.rs): the record of one    *)
(* context, the transaction its update stages into, and the metadata store *)
(* the caller commits the transaction to.                                  *)
(***************************************************************************)
\* Epochs 1..MaxPinEpoch are pinned, contexts 1..NumContexts have records,
\* a record loaded from a message holds at most MaxLoaded epochs, and one
\* run makes at most MaxPsOps calls.
MaxPinEpoch == 2
NumContexts == 2
MaxLoaded == 2
MaxPsOps == 6

PinEpochs == 1..MaxPinEpoch
Contexts == 1..NumContexts

HUMMOCK_CONTEXT_PINNED_SNAPSHOT_CF_NAME == "cf/hummock_context_pinned_snapshot"

\* MetadataModel::cf_name
cf_name == HUMMOCK_CONTEXT_PINNED_SNAPSHOT_CF_NAME

\* MetadataModel::key: HummockContextRefId { id: self.context_id }
RefId(rec) == [id |-> rec.context_id]

\* HummockContextRefId::encode_to_vec: field 1 as a varint, left out when 0
RefId_encode_to_vec(ref) == IF ref.id = 0 THEN << >> ELSE <<8, ref.id>>

\* HummockContextPinnedSnapshot::encode_to_vec: field 1 the context id,
\* field 2 the pinned epochs, packed; a field at its default is left out
encode_to_vec(rec) ==
    (IF rec.context_id = 0 THEN << >> ELSE <<8, rec.context_id>>)
    \o (IF rec.snapshot_id = << >> THEN << >>
        ELSE <<18, Len(rec.snapshot_id)>> \o rec.snapshot_id)

\* HummockContextPinnedSnapshot::decode of such bytes
decode(bytes) ==
    LET has_id == Len(bytes) >= 2 /\ bytes[1] = 8
        rest == IF has_id THEN SubSeq(bytes, 3, Len(bytes)) ELSE bytes
    IN  [context_id |-> IF has_id THEN bytes[2] ELSE 0,
         snapshot_id |-> IF rest = << >> THEN << >>
                         ELSE SubSeq(rest, 3, 2 + rest[2])]

\* ColumnFamilyUtils::prefix_key_with_cf
prefix_key_with_cf(key, cf) == <<cf, key>>

\* Mutant of the staged key: the context id is left out of the key.
StagedKey_NoContext(rec) ==
    prefix_key_with_cf(RefId_encode_to_vec([id |-> 0]), cf_name)

\* the key of upsert and delete:
\* prefix_key_with_cf(self.key().unwrap().encode_to_vec(), cf_name())
StagedKey(rec) == prefix_key_with_cf(RefId_encode_to_vec(RefId(rec)), cf_name)

\* Transactional::upsert: the one operation it adds
upsert(rec) == <<"Put", StagedKey(rec), encode_to_vec(rec), None>>

\* Transactional::delete: the one operation it adds
Transactional_delete(rec) == <<"Delete", StagedKey(rec), None>>

\* Iterator::position: the first index holding epoch, None without one
position(s, epoch) ==
    IF \E i \in 1..Len(s) : s[i] = epoch
    THEN Some(CHOOSE i \in 1..Len(s) :
                  s[i] = epoch /\ \A j \in 1..(i - 1) : s[j] # epoch)
    ELSE None

\* Vec::remove(pos)
Vec_remove(s, pos) == SubSeq(s, 1, pos - 1) \o SubSeq(s, pos + 1, Len(s))

\* Mutant of pin_snapshot: the epoch is pushed without the lookup.
Pinned_AlwaysPush(s, epoch) == Append(s, epoch)

\* pin_snapshot: snapshot_id afterwards
Pinned(s, epoch) ==
    LET found == position(s, epoch)
    IN  IF found = None THEN Append(s, epoch) ELSE s

\* Mutant of unpin_snapshot: every entry equal to the epoch is removed.
Unpinned_RemoveAll(s, epoch) == SelectSeq(s, LAMBDA v : v # epoch)

\* unpin_snapshot: snapshot_id afterwards
Unpinned(s, epoch) ==
    LET found == position(s, epoch)
    IN  IF found # None THEN Vec_remove(s, found[1]) ELSE s

\* Mutant of update: the record is upserted also when nothing is pinned.
StagedOp_AlwaysUpsert(rec) == upsert(rec)

\* update: the operation staged for the record
StagedOp(rec) ==
    IF rec.snapshot_id = << >> THEN Transactional_delete(rec) ELSE upsert(rec)

\* Transaction::add_operations
add_operations(t, operations) == t \o operations

\* The metadata store applies the operations of a transaction in order.
RECURSIVE apply_operations(_, _)
apply_operations(s, t) ==
    IF t = << >> THEN s
    ELSE apply_operations(
             IF t[1][1] = "Put" THEN StorePut(s, t[1][2], t[1][3])
             ELSE StoreDelete(s, t[1][2]),
             Tail(t))

\* the record held in memory
Record == [context_id |-> context_id, snapshot_id |-> snapshot_id]

\* The store before the run: it holds the record of context c0 when that
\* record pins something (s0), and a record of every other context.
InitialStore(c0, s0) ==
    LET pins(c) == IF c = c0 THEN s0 ELSE <<1>>
        holders == {c \in Contexts : pins(c) # << >>}
        KeyOf(c) == StagedKey([context_id |-> c, snapshot_id |-> pins(c)])
    IN  [k \in {KeyOf(c) : c \in holders} |->
            LET c == CHOOSE h \in holders : KeyOf(h) = k
            IN  encode_to_vec([context_id |-> c, snapshot_id |-> pins(c)])]

\* The record of one context: either new with nothing pinned, or decoded
\* from a message (from_protobuf), whatever epochs that message lists.
InitPinned ==
    /\ context_id \in Contexts
    /\ snapshot_id \in SeqsUpTo(PinEpochs, MaxLoaded)
    /\ trx = << >>
    /\ meta_store = InitialStore(context_id, snapshot_id)
    /\ ps_op = <<"new", 0>>
    /\ ps_ops = 0
    /\ ps_prev = snapshot_id
    /\ ps_built = (snapshot_id = << >>)
    /\ ps_staged = FALSE
    /\ ps_synced = FALSE

IdlePinned ==
    /\ context_id = 1
    /\ snapshot_id = << >>
    /\ trx = << >>
    /\ meta_store = EmptyStore
    /\ ps_op = <<"new", 0>>
    /\ ps_ops = 0
    /\ ps_prev = << >>
    /\ ps_built = TRUE
    /\ ps_staged = FALSE
    /\ ps_synced = FALSE

\* HummockContextPinnedSnapshotExt::pin_snapshot
pin_snapshot(epoch) ==
    /\ ps_ops < MaxPsOps
    /\ snapshot_id' = Pinned(snapshot_id, epoch)
    /\ ps_op' = <<"pin_snapshot", epoch>>
    /\ ps_ops' = ps_ops + 1
    /\ ps_prev' = snapshot_id
    /\ ps_staged' = FALSE
    /\ UNCHANGED <<context_id, trx, meta_store, ps_built, ps_synced,
                   notPinnedVars>>

\* HummockContextPinnedSnapshotExt::unpin_snapshot
unpin_snapshot(epoch) ==
    /\ ps_ops < MaxPsOps
    /\ snapshot_id' = Unpinned(snapshot_id, epoch)
    /\ ps_op' = <<"unpin_snapshot", epoch>>
    /\ ps_ops' = ps_ops + 1
    /\ ps_prev' = snapshot_id
    /\ ps_staged' = FALSE
    /\ UNCHANGED <<context_id, trx, meta_store, ps_built, ps_synced,
                   notPinnedVars>>

\* HummockContextPinnedSnapshotExt::update
update ==
    /\ ps_ops < MaxPsOps
    /\ trx' = add_operations(trx, <<StagedOp(Record)>>)
    /\ ps_op' = <<"update", 0>>
    /\ ps_ops' = ps_ops + 1
    /\ ps_staged' = TRUE
    /\ UNCHANGED <<context_id, snapshot_id, meta_store, ps_prev, ps_built,
                   ps_synced, notPinnedVars>>

\* The caller commits the transaction: all of its operations are applied
\* in order, or none when the commit fails; the transaction is consumed.
commit(commit_ok) ==
    /\ ps_ops < MaxPsOps
    /\ trx # << >>
    /\ meta_store' = IF commit_ok THEN apply_operations(meta_store, trx)
                     ELSE meta_store
    /\ trx' = << >>
    /\ ps_op' = <<"commit", IF commit_ok THEN 1 ELSE 0>>
    /\ ps_ops' = ps_ops + 1
    /\ ps_synced' = (commit_ok /\ ps_staged)
    /\ UNCHANGED <<context_id, snapshot_id, ps_prev, ps_built, ps_staged,
                   notPinnedVars>>

NextPinned ==
    \/ \E epoch \in PinEpochs : pin_snapshot(epoch)
    \/ \E epoch \in PinEpochs : unpin_snapshot(epoch)
    \/ update
    \/ \E commit_ok \in BOOLEAN : commit(commit_ok)

(***************************************************************************)
(* Segment and Keyspace (keyspace.rs).  A segment is <<kind, bytes>>; a    *)
(* keyspace is [store |-> a handle of a state store, prefix |-> bytes].    *)
(***************************************************************************)
\* Executor ids 0..MaxExecId and their multiples of 256, table ids
\* 0..MaxTableId and the same plus 10; at most MaxKeyspaces keyspace
\* objects over NumStores stores, scans limited to at most MaxLimit pairs,
\* and at most MaxKsOps operations in one run.
MaxExecId == 1
MaxTableId == 1
NumStores == 2
MaxKeyspaces == 3
MaxLimit == 1
MaxKsOps == 4

ExecutorIds == (0..MaxExecId) \cup {256 * i : i \in 1..MaxExecId}
TableIds == (0..MaxTableId) \cup {10 + i : i \in 0..MaxTableId}
StoreHandles == 1..NumStores
Limits == {None} \cup {Some(n) : n \in 0..MaxLimit}

FixedLength(bytes) == <<"FixedLength", bytes>>
VariantLength(bytes) == <<"VariantLength", bytes>>

\* u16::to_be_bytes and u32::to_be_bytes
U16Bytes(x) == <<(x \div 256) % 256, x % 256>>
U32Bytes(x) == Low4(x)

\* Segment::u16
Segment_u16(id) == FixedLength(U16Bytes(id))

\* Mutant of Segment::u32: only the low byte of the id is kept.
Segment_u32_LowByte(id) == FixedLength(<<id % 256>>)

\* Segment::u32
Segment_u32(id) == FixedLength(U32Bytes(id))

\* the largest length try_into::<u16> accepts
U16_MAX == 65535

\* Segment::encode: the bytes put into the buffer
Segment_encode(segment) ==
    IF segment[1] = "FixedLength" THEN segment[2]
    ELSE U16Bytes(Len(segment[2])) \o segment[2]

\* Mutant of Segment::encode: the length is cast, never refused.
Segment_encode_panics_Never(segment) == FALSE

\* Segment::encode panics on a variant segment longer than U16_MAX
Segment_encode_panics(segment) ==
    segment[1] = "VariantLength" /\ Len(segment[2]) > U16_MAX

\* Keyspace::push: the prefix afterwards
Pushed(prefix, segment) == prefix \o Segment_encode(segment)

\* the decimal digits of n, in ASCII
RECURSIVE Digits(_)
Digits(n) == IF n < 10 THEN <<48 + n>> ELSE Digits(n \div 10) \o <<48 + (n % 10)>>

\* format!("{:?}", id) of a TableId: "TableId { table_id: n }"
TableId_debug(id) ==
    <<84, 97, 98, 108, 101, 73, 100, 32, 123, 32, 116, 97, 98, 108, 101, 95,
      105, 100, 58, 32>> \o Digits(id) \o <<32, 125>>

\* Keyspace::executor_root: the prefix of the root
executor_root_prefix(id) ==
    Pushed(Pushed(<< >>, FixedLength(<<101>>)), Segment_u32(id))

\* Keyspace::table_root: the prefix of the root
table_root_prefix(id) ==
    Pushed(Pushed(<< >>, FixedLength(<<116>>)), VariantLength(TableId_debug(id)))

\* Keyspace::prefixed_key
prefixed_key(ks, key) == ks.prefix \o key

\* byte strings in lexicographic order
RECURSIVE LexLess(_, _)
LexLess(a, b) ==
    IF a = << >> THEN b # << >>
    ELSE IF b = << >> THEN FALSE
    ELSE IF a[1] # b[1] THEN a[1] < b[1]
    ELSE LexLess(Tail(a), Tail(b))

\* the keys of a set in lexicographic order
RECURSIVE SortedKeys(_)
SortedKeys(K) ==
    IF K = {} THEN << >>
    ELSE LET least == CHOOSE k \in K : \A o \in K \ {k} : LexLess(k, o)
         IN  <<least>> \o SortedKeys(K \ {least})

\* StateStore::get
StateStore_get(s, key) == IF key \in DOMAIN s THEN Some(s[key]) ELSE None

\* StateStore::scan: the pairs whose key starts with the prefix, in key
\* order, at most limit of them
StateStore_scan(s, prefix, limit) ==
    LET keys == SortedKeys(scan(s, prefix))
        n == IF limit = None \/ limit[1] > Len(keys) THEN Len(keys) ELSE limit[1]
    IN  [i \in 1..n |-> <<keys[i], s[keys[i]]>>]

\* Mutant of scan_strip_prefix: the keys are returned as scanned.
Bytes_slice_from_Nothing(k, begin) == k

\* Bytes::slice(begin..)
Bytes_slice_from(k, begin) == SubSeq(k, begin + 1, Len(k))

\* scan_strip_prefix: the pairs of a scan with the prefix cut off each key
StripPrefix(ks, pairs) ==
    [i \in 1..Len(pairs) |->
        <<Bytes_slice_from(pairs[i][1], Len(ks.prefix)), pairs[i][2]>>]

\* Mutant of with_segment: the segment is pushed onto the receiver too.
WithSegment_Shared(kss, k, segment) ==
    LET pushed == [store |-> kss[k].store, prefix |-> Pushed(kss[k].prefix, segment)]
    IN  Append([kss EXCEPT ![k] = pushed], pushed)

\* with_segment: the keyspace objects afterwards, the clone pushed onto
\* coming last
WithSegment(kss, k, segment) ==
    LET new_keyspace == kss[k]
    IN  Append(kss, [new_keyspace EXCEPT !.prefix = Pushed(new_keyspace.prefix, segment)])

\* a variant segment one byte longer than a u16 length can tell
TooLongSegment == VariantLength([n \in 1..(U16_MAX + 1) |-> 0])

\* The segments callers push, and the keys and values they write.
Segments ==
    {FixedLength(<<65>>), FixedLength(<<66>>), FixedLength(<<0, 1, 65>>),
     VariantLength(<<65>>), TooLongSegment}
Suffixes == {<< >>, <<65>>}
KsValue == <<7>>

InitKeyspace ==
    /\ keyspaces = << >>
    /\ stores = [h \in StoreHandles |-> EmptyStore]
    /\ ks_origin = << >>
    /\ ks_written = {}
    /\ ks_op = [name |-> "new", result |-> "Ok"]
    /\ ks_ops = 0

IdleKeyspace == InitKeyspace

KsRunning == ks_ops < MaxKsOps /\ ks_op.result # "panic"

\* Keyspace::executor_root
executor_root(store, id) ==
    /\ KsRunning /\ Len(keyspaces) < MaxKeyspaces
    /\ keyspaces' = Append(keyspaces,
                           [store |-> store, prefix |-> executor_root_prefix(id)])
    /\ ks_origin' = Append(ks_origin, [root |-> <<"e", id>>, segs |-> << >>])
    /\ ks_op' = [name |-> "executor_root", ks |-> Len(keyspaces) + 1, result |-> "Ok"]
    /\ ks_ops' = ks_ops + 1
    /\ UNCHANGED <<stores, ks_written, notKeyspaceVars>>

\* Keyspace::table_root
table_root(store, id) ==
    /\ KsRunning /\ Len(keyspaces) < MaxKeyspaces
    /\ keyspaces' = Append(keyspaces,
                           [store |-> store, prefix |-> table_root_prefix(id)])
    /\ ks_origin' = Append(ks_origin, [root |-> <<"t", id>>, segs |-> << >>])
    /\ ks_op' = [name |-> "table_root", ks |-> Len(keyspaces) + 1, result |-> "Ok"]
    /\ ks_ops' = ks_ops + 1
    /\ UNCHANGED <<stores, ks_written, notKeyspaceVars>>

\* Keyspace::push on the keyspace k
push(k, segment) ==
    /\ KsRunning
    /\ ks_ops' = ks_ops + 1
    /\ IF Segment_encode_panics(segment)
       THEN /\ ks_op' = [name |-> "push", ks |-> k, kind |-> segment[1],
                         length |-> Len(segment[2]), result |-> "panic"]
            /\ UNCHANGED <<keyspaces, ks_origin>>
       ELSE /\ keyspaces' = [keyspaces EXCEPT
                                ![k].prefix = Pushed(keyspaces[k].prefix, segment)]
            /\ ks_origin' = [ks_origin EXCEPT
                                ![k].segs = Append(ks_origin[k].segs, segment)]
            /\ ks_op' = [name |-> "push", ks |-> k, kind |-> segment[1],
                         length |-> Len(segment[2]), segment |-> segment,
                         result |-> "Ok"]
    /\ UNCHANGED <<stores, ks_written, notKeyspaceVars>>

\* Keyspace::with_segment on the keyspace k
with_segment(k, segment) ==
    /\ KsRunning /\ Len(keyspaces) < MaxKeyspaces
    /\ ks_ops' = ks_ops + 1
    /\ IF Segment_encode_panics(segment)
       THEN /\ ks_op' = [name |-> "with_segment", ks |-> k, kind |-> segment[1],
                         length |-> Len(segment[2]), result |-> "panic"]
            /\ UNCHANGED <<keyspaces, ks_origin>>
       ELSE /\ keyspaces' = WithSegment(keyspaces, k, segment)
            /\ ks_origin' = Append(ks_origin,
                                   [ks_origin[k] EXCEPT
                                       !.segs = Append(ks_origin[k].segs, segment)])
            /\ ks_op' = [name |-> "with_segment", ks |-> k, kind |-> segment[1],
                         length |-> Len(segment[2]), segment |-> segment,
                         result |-> "Ok"]
    /\ UNCHANGED <<stores, ks_written, notKeyspaceVars>>

\* The owner of keyspace k writes a value under prefixed_key(key) through
\* the store it got from state_store().
ks_write(k, key) ==
    /\ KsRunning
    /\ LET store == keyspaces[k].store
           full == prefixed_key(keyspaces[k], key)
       IN  /\ stores' = [stores EXCEPT
                            ![store] = ingest_batch(stores[store],
                                                    <<<<full, Some(KsValue)>>>>)]
           /\ ks_written' = ks_written \cup {<<store, full, ks_origin[k].root>>}
    /\ ks_op' = [name |-> "write", ks |-> k, result |-> "Ok"]
    /\ ks_ops' = ks_ops + 1
    /\ UNCHANGED <<keyspaces, ks_origin, notKeyspaceVars>>

\* Keyspace::get on the keyspace k
ks_get(k, key) ==
    /\ KsRunning
    /\ ks_op' = [name |-> "get", ks |-> k, key |-> key,
                 result |-> "Ok",
                 value |-> StateStore_get(stores[keyspaces[k].store],
                                          prefixed_key(keyspaces[k], key))]
    /\ ks_ops' = ks_ops + 1
    /\ UNCHANGED <<keyspaces, stores, ks_origin, ks_written, notKeyspaceVars>>

\* Keyspace::scan on the keyspace k
ks_scan(k, limit, store_ok) ==
    /\ KsRunning
    /\ ks_op' = IF store_ok
                THEN [name |-> "scan", ks |-> k, limit |-> limit, result |-> "Ok",
                      pairs |-> StateStore_scan(stores[keyspaces[k].store],
                                                keyspaces[k].prefix, limit)]
                ELSE [name |-> "scan", ks |-> k, limit |-> limit,
                      result |-> "StoreError"]
    /\ ks_ops' = ks_ops + 1
    /\ UNCHANGED <<keyspaces, stores, ks_origin, ks_written, notKeyspaceVars>>

\* Keyspace::scan_strip_prefix on the keyspace k
scan_strip_prefix(k, limit, store_ok) ==
    /\ KsRunning
    /\ ks_op' = IF store_ok
                THEN [name |-> "scan_strip_prefix", ks |-> k, limit |-> limit,
                      result |-> "Ok",
                      pairs |-> StripPrefix(
                                    keyspaces[k],
                                    StateStore_scan(stores[keyspaces[k].store],
                                                    keyspaces[k].prefix, limit))]
                ELSE [name |-> "scan_strip_prefix", ks |-> k, limit |-> limit,
                      result |-> "StoreError"]
    /\ ks_ops' = ks_ops + 1
    /\ UNCHANGED <<keyspaces, stores, ks_origin, ks_written, notKeyspaceVars>>

NextKeyspace ==
    \/ \E store \in StoreHandles : \E id \in ExecutorIds : executor_root(store, id)
    \/ \E store \in StoreHandles : \E id \in TableIds : table_root(store, id)
    \/ \E k \in 1..Len(keyspaces) : \E segment \in Segments : push(k, segment)
    \/ \E k \in 1..Len(keyspaces) : \E segment \in Segments : with_segment(k, segment)
    \/ \E k \in 1..Len(keyspaces) : \E key \in Suffixes : ks_write(k, key)
    \/ \E k \in 1..Len(keyspaces) : \E key \in Suffixes : ks_get(k, key)
    \/ \E k \in 1..Len(keyspaces) :
           \/ \E limit \in Limits : ks_scan(k, limit, TRUE)
           \/ ks_scan(k, None, FALSE)
    \/ \E k \in 1..Len(keyspaces) :
           \/ \E limit \in Limits : scan_strip_prefix(k, limit, TRUE)
           \/ scan_strip_prefix(k, None, FALSE)

(***************************************************************************)
(* GrpcExchangeSource (exchange_source.rs).  The stream carries items: a   *)
(* GetDataResponse, or an error status.  The record batch of a response is *)
(* an optional DataChunk message [id, valid]; valid tells whether its      *)
(* columns decode.                                                         *)
(***************************************************************************)
\* The remote task sends at most MaxSent items holding chunks 1..MaxChunk,
\* and take_data is called at most MaxTaken times.
MaxSent == 3
MaxChunk == 2
MaxTaken == 4

\* DataChunk::default, the message
DefaultChunkMessage == [id |-> 0, valid |-> TRUE]

ChunkMessages == [id : 1..MaxChunk, valid : BOOLEAN]

\* the items a stream can carry
StreamItems ==
    {[ok |-> TRUE, record_batch |-> b] :
        b \in {None} \cup {Some(m) : m \in ChunkMessages}}
    \cup {[ok |-> FALSE, status |-> "Status"]}

\* GetDataResponse::get_record_batch: the batch, or the default message
get_record_batch(task_data) ==
    IF task_data.record_batch = None THEN DefaultChunkMessage
    ELSE task_data.record_batch[1]

\* DataChunk::from_protobuf
from_protobuf(message) ==
    IF message.valid THEN [ok |-> TRUE, chunk |-> <<"DataChunk", message.id>>]
    ELSE [ok |-> FALSE, error |-> "from_protobuf"]

\* Mutant of take_data: an error item ends the stream for the caller.
take_data_result_ErrorAsEnd(next) ==
    IF next = None THEN <<"Ok", None>>
    ELSE IF ~next[1].ok THEN <<"Ok", None>>
    ELSE LET decoded == from_protobuf(get_record_batch(next[1]))
         IN  IF decoded.ok THEN <<"Ok", Some(decoded.chunk)>>
             ELSE <<"Err", decoded.error>>

\* take_data: what is returned for the outcome of self.stream.next()
take_data_result(next) ==
    IF next = None THEN <<"Ok", None>>
    ELSE IF ~next[1].ok THEN <<"Err", "failed to take data from stream">>
    ELSE LET decoded == from_protobuf(get_record_batch(next[1]))
         IN  IF decoded.ok THEN <<"Ok", Some(decoded.chunk)>>
             ELSE <<"Err", decoded.error>>

InitExchange ==
    /\ xs_pc = "none"
    /\ xs_stream = << >>
    /\ xs_closed = FALSE
    /\ xs_sent = << >>
    /\ xs_taken = << >>

IdleExchange == InitExchange

\* GrpcExchangeSource::create: the connection and the get_data call succeed
\* or one of them fails
create(connect_ok, get_data_ok) ==
    /\ xs_pc = "none"
    /\ xs_pc' = IF connect_ok /\ get_data_ok THEN "created" ELSE "failed"
    /\ UNCHANGED <<xs_stream, xs_closed, xs_sent, xs_taken, notExchangeVars>>

\* The remote task puts an item on the stream.
remote_send(item) ==
    /\ xs_pc = "created" /\ ~xs_closed
    /\ Len(xs_sent) < MaxSent
    /\ xs_stream' = Append(xs_stream, item)
    /\ xs_sent' = Append(xs_sent, item)
    /\ UNCHANGED <<xs_pc, xs_closed, xs_taken, notExchangeVars>>

\* The remote task ends the stream.
remote_close ==
    /\ xs_pc = "created" /\ ~xs_closed
    /\ xs_closed' = TRUE
    /\ UNCHANGED <<xs_pc, xs_stream, xs_sent, xs_taken, notExchangeVars>>

\* GrpcExchangeSource::take_data: self.stream.next() yields the oldest item,
\* or None once the stream has ended; until then the call waits.
take_data ==
    /\ xs_pc = "created"
    /\ Len(xs_taken) < MaxTaken
    /\ xs_stream # << >> \/ xs_closed
    /\ LET next == IF xs_stream = << >> THEN None ELSE Some(Head(xs_stream))
       IN  /\ xs_taken' = Append(xs_taken, take_data_result(next))
           /\ xs_stream' = IF next = None THEN xs_stream ELSE Tail(xs_stream)
    /\ UNCHANGED <<xs_pc, xs_closed, xs_sent, notExchangeVars>>

NextExchange ==
    \/ \E connect_ok, get_data_ok \in BOOLEAN : create(connect_ok, get_data_ok)
    \/ \E item \in StreamItems : remote_send(item)
    \/ remote_close
    \/ take_data

(***************************************************************************)
(* wait_tcp (wait_tcp.rs).  Time is counted in seconds since start_time.   *)
(* One step of the loop is one iteration: the connection attempt, the      *)
(* timeout check, the check of the failure file and the sleep.             *)
(***************************************************************************)
\* Timeouts are 0..MaxTimeout seconds, the elapsed time is counted up to
\* MaxElapsed and the attempts up to MaxAttempts.
MaxTimeout == 2
MaxElapsed == 4
MaxAttempts == 3

Timeouts == {None} \cup {Some(t) : t \in 0..MaxTimeout}

\* elapsed + d, counted up to MaxElapsed
Later(elapsed, d) ==
    IF elapsed + d > MaxElapsed THEN MaxElapsed ELSE elapsed + d

\* Mutant of the timeout check: the elapsed time has to exceed the timeout.
TimedOut_Strict(elapsed, timeout) == timeout # None /\ elapsed > timeout[1]

\* if let Some(ref timeout) = timeout { Instant::now() - start_time >= *timeout }
TimedOut(elapsed, timeout) == timeout # None /\ elapsed >= timeout[1]

InitWaitTcp ==
    /\ wt_timeout \in Timeouts
    /\ wt_detect_failure \in BOOLEAN
    /\ wt_addr_ok \in BOOLEAN
    /\ wt_pc = "start"
    /\ wt_result = ""
    /\ wt_cause = ""
    /\ wt_elapsed = 0
    /\ wt_file = FALSE
    /\ wt_attempts = 0
    /\ wt_checked = 0
    /\ wt_tick = FALSE

IdleWaitTcp ==
    /\ wt_timeout = None
    /\ wt_detect_failure = FALSE
    /\ wt_addr_ok = TRUE
    /\ wt_pc = "start"
    /\ wt_result = ""
    /\ wt_cause = ""
    /\ wt_elapsed = 0
    /\ wt_file = FALSE
    /\ wt_attempts = 0
    /\ wt_checked = 0
    /\ wt_tick = FALSE

\* wait_tcp up to the loop: server.parse()?, start_time, writeln!(..)?
wt_start(write_ok) ==
    /\ wt_pc = "start"
    /\ IF ~wt_addr_ok
       THEN wt_pc' = "done" /\ wt_result' = "Err" /\ wt_cause' = "parse"
       ELSE IF ~write_ok
       THEN wt_pc' = "done" /\ wt_result' = "Err" /\ wt_cause' = "write"
       ELSE wt_pc' = "loop" /\ UNCHANGED <<wt_result, wt_cause>>
    /\ UNCHANGED <<wt_timeout, wt_detect_failure, wt_addr_ok, wt_elapsed,
                   wt_file, wt_attempts, wt_checked, wt_tick, notWaitTcpVars>>

\* One iteration of the loop.  connect_ok: TcpStream::connect_timeout
\* succeeds; d_connect: the time it takes, at most its timeout of 1 s;
\* write_ok: the writeln! of the retry line; read_ok: opening and reading
\* the failure file; d_sleep: the time sleep(1 s) takes, at least 1 s.
wt_iteration(connect_ok, d_connect, write_ok, read_ok, d_sleep) ==
    LET at_check == Later(wt_elapsed, d_connect)
    IN  /\ wt_pc = "loop"
        /\ wt_attempts' =
               IF wt_attempts < MaxAttempts THEN wt_attempts + 1 ELSE wt_attempts
        /\ wt_tick' = ~wt_tick
        /\ IF connect_ok
           THEN /\ wt_pc' = "done" /\ wt_result' = "Ok"
                /\ wt_elapsed' = at_check
                /\ UNCHANGED <<wt_cause, wt_checked>>
           ELSE IF ~write_ok
           THEN /\ wt_pc' = "done" /\ wt_result' = "Err" /\ wt_cause' = "write"
                /\ wt_elapsed' = at_check
                /\ UNCHANGED wt_checked
           ELSE IF TimedOut(at_check, wt_timeout)
           THEN /\ wt_pc' = "done" /\ wt_result' = "Err" /\ wt_cause' = "timeout"
                /\ wt_elapsed' = at_check
                /\ wt_checked' = at_check
           ELSE IF wt_detect_failure /\ wt_file
           THEN /\ wt_pc' = "done" /\ wt_result' = "Err"
                /\ wt_cause' = IF read_ok THEN "exited" ELSE "read"
                /\ wt_elapsed' = at_check
                /\ wt_checked' = at_check
           ELSE /\ wt_elapsed' = Later(at_check, d_sleep)
                /\ wt_checked' = at_check
                /\ UNCHANGED <<wt_pc, wt_result, wt_cause>>
        /\ UNCHANGED <<wt_timeout, wt_detect_failure, wt_addr_ok, wt_file,
                       notWaitTcpVars>>

\* The awaited service exits and leaves the failure file at p.
service_exits ==
    /\ wt_pc # "done"
    /\ ~wt_file
    /\ wt_file' = TRUE
    /\ UNCHANGED <<wt_timeout, wt_detect_failure, wt_addr_ok, wt_pc, wt_result,
                   wt_cause, wt_elapsed, wt_attempts, wt_checked, wt_tick,
                   notWaitTcpVars>>

wt_step ==
    \/ \E write_ok \in BOOLEAN : wt_start(write_ok)
    \/ \E connect_ok, write_ok, read_ok \in BOOLEAN :
           \E d_connect \in 0..1, d_sleep \in 1..2 :
               wt_iteration(connect_ok, d_connect, write_ok, read_ok, d_sleep)

NextWaitTcp ==
    \/ wt_step
    \/ service_exits

(***************************************************************************)
(* KafkaSplitReader (reader.rs).  An item of the partition queue is a      *)
(* message [ok, offset] or an error of the consumer; the offsets of the    *)
(* messages of a partition increase.                                       *)
(***************************************************************************)
\* Offsets are 0..MaxOffset, the queue holds at most MaxQueue items, and
\* next is called at most MaxKrOps times.
MaxOffset == 3
MaxQueue == 3
MaxKrOps == 3

KAFKA_MAX_FETCH_MESSAGES == 1024

\* KafkaOffset, as far as next looks at it
KafkaOffsets ==
    {<<"Earliest">>, <<"Latest">>, <<"None">>}
    \cup {<<"Offset", o>> : o \in 0..MaxOffset}

KafkaError == [ok |-> FALSE]

QueueItems == {[ok |-> TRUE, offset |-> o] : o \in 0..MaxOffset} \cup {KafkaError}

\* the queues of a partition: the offsets of the messages increase
Queues ==
    {q \in UNION {[1..n -> QueueItems] : n \in 0..MaxQueue} :
        \A i, j \in 1..Len(q) :
            (i < j /\ q[i].ok /\ q[j].ok) => q[i].offset < q[j].offset}

\* InnerMessage::from(msg)
InnerMessage_from(msg) == [payload |-> <<"payload", msg.offset>>, offset |-> msg.offset]

\* Mutant of the stop check: the message at the stop offset passes.
StopReached_After(offset, stop) == stop[1] = "Offset" /\ offset > stop[2]

\* if let KafkaOffset::Offset(stopping_offset) = stop_offset { offset >= stopping_offset }
StopReached(offset, stop) == stop[1] = "Offset" /\ offset >= stop[2]

\* next, the loop over the chunk from item i on, ret holding the messages
\* pushed so far: the result and whether the consumer was unassigned
RECURSIVE ForMsgInChunk(_, _, _, _, _)
ForMsgInChunk(chunk, i, ret, stop, assign_ok) ==
    IF i > Len(chunk)
    THEN [result |-> <<"Ok", Some(ret)>>, unassigned |-> FALSE]
    ELSE IF ~chunk[i].ok
    THEN [result |-> <<"Err", "message">>, unassigned |-> FALSE]
    ELSE IF StopReached(chunk[i].offset, stop)
    THEN IF assign_ok
         THEN [result |-> <<"Ok", Some(ret)>>, unassigned |-> TRUE]
         ELSE [result |-> <<"Err", "assign">>, unassigned |-> FALSE]
    ELSE ForMsgInChunk(chunk, i + 1, Append(ret, InnerMessage_from(chunk[i])),
                       stop, assign_ok)

InitKafka ==
    /\ stop_offset \in KafkaOffsets
    /\ partition_queue \in Queues
    /\ kr_ended = FALSE
    /\ kr_assigned = TRUE
    /\ kr_result = <<"none">>
    /\ kr_chunk = << >>
    /\ kr_assign_ok = TRUE
    /\ kr_ops = 0

IdleKafka ==
    /\ stop_offset = <<"None">>
    /\ partition_queue = << >>
    /\ kr_ended = FALSE
    /\ kr_assigned = TRUE
    /\ kr_result = <<"none">>
    /\ kr_chunk = << >>
    /\ kr_assign_ok = TRUE
    /\ kr_ops = 0

\* The partition queue expires.
queue_expires ==
    /\ ~kr_ended
    /\ kr_ended' = TRUE
    /\ UNCHANGED <<stop_offset, partition_queue, kr_assigned, kr_result,
                   kr_chunk, kr_assign_ok, kr_ops, notKafkaVars>>

\* KafkaSplitReader::next.  ready: the items ready_chunks finds ready, at
\* least one and at most KAFKA_MAX_FETCH_MESSAGES; assign_ok: whether
\* consumer.assign succeeds if it is called.
kr_next(ready, assign_ok) ==
    /\ kr_ops < MaxKrOps
    /\ kr_ops' = kr_ops + 1
    /\ IF partition_queue = << >>
       THEN \* stream.next() is None once the queue has expired
            /\ kr_ended
            /\ kr_result' = <<"Ok", None>>
            /\ kr_chunk' = << >>
            /\ UNCHANGED <<partition_queue, kr_assigned, kr_assign_ok>>
       ELSE /\ ready >= 1 /\ ready <= Len(partition_queue)
            /\ ready <= KAFKA_MAX_FETCH_MESSAGES
            /\ LET chunk == SubSeq(partition_queue, 1, ready)
                   done == ForMsgInChunk(chunk, 1, << >>, stop_offset, assign_ok)
               IN  /\ kr_result' = done.result
                   /\ kr_chunk' = chunk
                   /\ kr_assigned' = (kr_assigned /\ ~done.unassigned)
                   /\ kr_assign_ok' = assign_ok
                   /\ partition_queue' =
                          SubSeq(partition_queue, ready + 1, Len(partition_queue))
    /\ UNCHANGED <<stop_offset, kr_ended, notKafkaVars>>

NextKafka ==
    \/ queue_expires
    \/ \E ready \in 1..MaxQueue, assign_ok \in BOOLEAN : kr_next(ready, assign_ok)

(***************************************************************************)
(* Specifications.                                                         *)
(***************************************************************************)
InitSpecEpoch ==
    InitEpoch /\ IdleMT /\ IdleMView /\ IdleAgg
    /\ IdlePinned /\ IdleKeyspace /\ IdleExchange
    /\ IdleWaitTcp /\ IdleKafka
SpecEpoch == InitSpecEpoch /\ [][NextEpoch]_vars

InitSpecEpochMT ==
    InitEpoch /\ InitMT /\ IdleMView /\ IdleAgg
    /\ IdlePinned /\ IdleKeyspace /\ IdleExchange
    /\ IdleWaitTcp /\ IdleKafka
SpecEpochMT == InitSpecEpochMT /\ [][NextMT]_vars

InitSpecMView ==
    IdleEpoch /\ IdleMT /\ InitMView /\ IdleAgg
    /\ IdlePinned /\ IdleKeyspace /\ IdleExchange
    /\ IdleWaitTcp /\ IdleKafka
SpecMView == InitSpecMView /\ [][NextMView]_vars

InitSpecAgg ==
    IdleEpoch /\ IdleMT /\ IdleMView /\ InitAgg
    /\ IdlePinned /\ IdleKeyspace /\ IdleExchange
    /\ IdleWaitTcp /\ IdleKafka
SpecAgg == InitSpecAgg /\ [][NextAgg]_vars

InitSpecPinned ==
    IdleEpoch /\ IdleMT /\ IdleMView /\ IdleAgg
    /\ InitPinned /\ IdleKeyspace /\ IdleExchange
    /\ IdleWaitTcp /\ IdleKafka
SpecPinned == InitSpecPinned /\ [][NextPinned]_vars

InitSpecKeyspace ==
    IdleEpoch /\ IdleMT /\ IdleMView /\ IdleAgg
    /\ IdlePinned /\ InitKeyspace /\ IdleExchange
    /\ IdleWaitTcp /\ IdleKafka
SpecKeyspace == InitSpecKeyspace /\ [][NextKeyspace]_vars

InitSpecExchange ==
    IdleEpoch /\ IdleMT /\ IdleMView /\ IdleAgg
    /\ IdlePinned /\ IdleKeyspace /\ InitExchange
    /\ IdleWaitTcp /\ IdleKafka
SpecExchange == InitSpecExchange /\ [][NextExchange]_vars

\* wait_tcp runs on a thread of its own: connect_timeout, the writes and the
\* sleep return, so a call that has not returned takes its next step.
InitSpecWaitTcp ==
    IdleEpoch /\ IdleMT /\ IdleMView /\ IdleAgg
    /\ IdlePinned /\ IdleKeyspace /\ IdleExchange
    /\ InitWaitTcp /\ IdleKafka
SpecWaitTcp ==
    InitSpecWaitTcp /\ [][NextWaitTcp]_vars /\ WF_vars(wt_step)

InitSpecKafka ==
    IdleEpoch /\ IdleMT /\ IdleMView /\ IdleAgg
    /\ IdlePinned /\ IdleKeyspace /\ IdleExchange
    /\ IdleWaitTcp /\ InitKafka
SpecKafka == InitSpecKafka /\ [][NextKafka]_vars

(***************************************************************************)
(* Claims about the epoch generator.                                       *)
(***************************************************************************)
Last(s) == s[Len(s)]

NoDuplicates(s) == \A i, j \in 1..Len(s) : i # j => s[i] # s[j]

StrictlyIncreasing(s) == \A i \in 1..(Len(s) - 1) : s[i] < s[i + 1]

\* C1: every epoch generate() returns is strictly greater than the epoch the
\* previous generate() returned, whatever the clock reads at each call.
C1_StrictlyIncreasing ==
    gen_calls = 2 => current_epoch > prev_ret

\* C2 as stated: when two consecutive generate() calls read the same
\* millisecond the second returns the first's epoch plus one, and when the
\* second reads another millisecond it returns that millisecond << 16.
C2_SameMillisPlusOne ==
    gen_calls = 2 =>
        /\ last_now = prev_now => current_epoch = prev_ret + 1
        /\ last_now # prev_now => current_epoch = ShiftLeft(last_now)

\* C2 as amended: a generate() call that reads the millisecond held in the
\* physical bits of the epoch the previous call returned returns that epoch
\* plus one; a call that reads any other millisecond returns its own
\* millisecond << 16 with logical component 0.
C2_StoredMillisPlusOne ==
    gen_calls = 2 =>
        /\ last_now = physical_time(prev_ret) => current_epoch = prev_ret + 1
        /\ last_now # physical_time(prev_ret) =>
               /\ current_epoch = ShiftLeft(last_now)
               /\ logical(current_epoch) = 0

\* Two consecutive calls read the millisecond of the stored epoch and the
\* second one incremented the first one's result.
C2_Witness ==
    /\ gen_calls = 2
    /\ last_now = prev_now
    /\ last_now = physical_time(prev_ret)
    /\ logical(prev_ret) = 1
    /\ current_epoch = prev_ret + 1

\* C3: with threads calling generate() concurrently, no two calls return the
\* same epoch, the stored epoch is the last one returned whenever the mutex
\* is free, and with a clock that never went back the returned epochs are
\* strictly increasing in the order the lock was taken.
C3_AtomicGenerate ==
    /\ NoDuplicates(mt_returned)
    /\ (mutex = 0 /\ mt_returned # << >>) => current_epoch = Last(mt_returned)
    /\ mt_clock[2] => StrictlyIncreasing(mt_returned)

\* The parts of C3 that rest on the mutex alone.
C3_MutexParts ==
    /\ (mutex = 0 /\ mt_returned # << >>) => current_epoch = Last(mt_returned)
    /\ mt_clock[2] => StrictlyIncreasing(mt_returned)
    /\ Cardinality({t \in Threads : mt_pc[t] # "idle"}) <= 1

(***************************************************************************)
(* Claims about the managed mview state.                                   *)
(***************************************************************************)
EntriesOf(m, pk) == {e \in m : e[1] = pk}

\* the batch items whose key lies under the cells of pk
ItemsOf(batch, pk) ==
    {batch[j] : j \in {i \in 1..Len(batch) :
                          IsPrefix(mv_prefix \o serialize_pk(pk), batch[i][1])}}

\* the pairs one mutation m (None: delete, Some(row): put) of pk stands for
CellsOfMutation(pk, m) ==
    {<<CellKey(pk, i),
       IF m = None THEN None ELSE Some(serialize_cell(m[1][i + 1]))>> :
        i \in 0..(SchemaLen - 1)}

\* C4: between two flushes the memtable holds at most one entry per primary
\* key, the last mutation issued for it; a flush hands the store, for every
\* key, only the cells of that last mutation (deletions only after put then
\* delete, the cells of A only after delete then put(A)).
C4_LastWriterWins ==
    /\ \A pk \in PkRows :
          /\ Cardinality(EntriesOf(memtable, pk)) <= 1
          /\ mv_window[pk] = None => EntriesOf(memtable, pk) = {}
          /\ mv_window[pk] # None =>
                 EntriesOf(memtable, pk) = {<<pk, mv_window[pk][1]>>}
    /\ (mv_op = "flush" /\ mv_flushed.ingest_calls > 0) =>
          \A pk \in PkRows :
              ItemsOf(mv_flushed.batch, pk) =
                  IF mv_flushed.window[pk] = None THEN {}
                  ELSE CellsOfMutation(pk, mv_flushed.window[pk][1])

\* A flush that followed put(k, A) then delete(k): its batch holds the
\* deletions of k's cells and nothing else.
C4_Witness ==
    /\ mv_op = "flush"
    /\ mv_flushed.ingest_calls = 1
    /\ mv_flushed.overwrote = <<PkRow(1), "put", "delete">>
    /\ mv_flushed.pending = {<<PkRow(1), None>>}
    /\ Len(mv_flushed.batch) = SchemaLen
    /\ \A j \in 1..Len(mv_flushed.batch) : mv_flushed.batch[j][2] = None

\* The same for delete(k) then put(k, A): the batch holds the cells of A.
C4_WitnessDeletePut ==
    /\ mv_op = "flush"
    /\ mv_flushed.ingest_calls = 1
    /\ mv_flushed.overwrote = <<PkRow(1), "delete", "put">>
    /\ \E A \in ValueRows(PkRow(1)) :
          /\ mv_flushed.pending = {<<PkRow(1), Some(A)>>}
          /\ \A j \in 1..Len(mv_flushed.batch) :
                \E i \in 1..SchemaLen :
                    mv_flushed.batch[j][2] = Some(serialize_cell(A[i]))
    /\ Len(mv_flushed.batch) = SchemaLen

\* C5: over an initially empty store, when no flush lost a mutation (every
\* flush returned Ok), right after a flush the scan of the view's prefix
\* holds exactly SchemaLen cells for every primary key whose latest mutation
\* was a put and none for a key whose latest mutation was a delete.
C5_CellCount ==
    (mv_op = "flush" /\ mv_lost = {}) =>
        /\ \A pk \in PkRows :
              Cardinality({k \in scan(storage, mv_prefix) :
                              IsPrefix(mv_prefix \o serialize_pk(pk), k)})
                = IF mv_latest[pk] # None /\ mv_latest[pk] # Some(None)
                  THEN SchemaLen ELSE 0
        /\ Cardinality(scan(storage, mv_prefix))
             = SchemaLen * Cardinality({pk \in PkRows :
                   mv_latest[pk] # None /\ mv_latest[pk] # Some(None)})

\* The end of the scenario of test_mview_state: the store held the cells of
\* two keys, the flush deleted those of key 3, and one key's cells are left.
C5_Witness ==
    /\ mv_op = "flush"
    /\ mv_flushed.result = "Ok"
    /\ mv_lost = {}
    /\ Cardinality(scan(mv_flushed.store_before, mv_prefix)) = 2 * SchemaLen
    /\ mv_flushed.pending = {<<PkRow(3), None>>}
    /\ mv_latest[PkRow(2)] = Some(None)
    /\ mv_latest[PkRow(1)] # Some(None)
    /\ Cardinality(scan(storage, mv_prefix)) = SchemaLen

\* C6: the batch a flush hands to ingest_batch holds, for every pending
\* memtable entry and every column index, exactly one pair, keyed
\* prefix ++ pk ++ column index: Some(cell) for a put, None for a delete;
\* so it has (pending keys) x SchemaLen pairs.
C6_CellExpansion ==
    (mv_op = "flush" /\ mv_flushed.ingest_calls > 0) =>
        LET batch == mv_flushed.batch IN
        /\ Len(batch) = Cardinality(mv_flushed.pending) * SchemaLen
        /\ \A e \in mv_flushed.pending : \A i \in 0..(SchemaLen - 1) :
              /\ Cardinality({j \in 1..Len(batch) :
                                 batch[j][1] = CellKey(e[1], i)}) = 1
              /\ \A j \in 1..Len(batch) :
                    batch[j][1] = CellKey(e[1], i) =>
                        batch[j][2] =
                            IF e[2] = None THEN None
                            ELSE Some(serialize_cell(e[2][1][i + 1]))
        /\ \A j \in 1..Len(batch) :
              \E e \in mv_flushed.pending : \E i \in 0..(SchemaLen - 1) :
                  batch[j][1] = CellKey(e[1], i)

\* A flush of one pending put and one pending delete.
C6_Witness ==
    /\ mv_op = "flush"
    /\ mv_flushed.ingest_calls = 1
    /\ \E e \in mv_flushed.pending : e[2] = None
    /\ \E e \in mv_flushed.pending : e[2] # None
    /\ Len(mv_flushed.batch) = 2 * SchemaLen

\* C7: after a flush, whatever it returned, the memtable is empty; and a
\* flush does not emit the mutations an earlier failed flush dropped: its
\* batch holds only cells of keys mutated since the previous flush.
C7_FlushDrains ==
    mv_op = "flush" =>
        /\ memtable = {}
        /\ \A pk \in PkRows :
              mv_flushed.window[pk] = None =>
                  ItemsOf(mv_flushed.batch, pk) = {}
        /\ \A pk \in mv_flushed.lost_before :
              mv_flushed.window[pk] = None =>
                  ItemsOf(mv_flushed.batch, pk) = {}

\* A failed flush of pending mutations has left the memtable empty.
C7_Witness ==
    /\ mv_op = "flush"
    /\ mv_flushed.ser_failed
    /\ Cardinality(mv_flushed.pending) >= 2
    /\ memtable = {}

\* A flush after a failed one handed over a batch without the keys the
\* failed one dropped.
C7_WitnessNext ==
    /\ mv_op = "flush"
    /\ mv_flushed.result = "Ok"
    /\ mv_flushed.lost_before # {}
    /\ mv_flushed.batch # << >>
    /\ \A pk \in mv_flushed.lost_before : ItemsOf(mv_flushed.batch, pk) = {}

\* C8: a flush calls ingest_batch at most once, with all its cell
\* mutations; when a serializer fails ingest_batch is not called and the
\* store is untouched; when ingest_batch fails it is not called again and
\* the store is as before; in both cases flush returns an error.
C8_AllOrNothing ==
    mv_op = "flush" =>
        /\ mv_flushed.ingest_calls <= 1
        /\ mv_flushed.ser_failed =>
              /\ mv_flushed.ingest_calls = 0
              /\ storage = mv_flushed.store_before
              /\ mv_flushed.result # "Ok"
        /\ mv_flushed.ingest_failed =>
              /\ mv_flushed.ingest_calls = 1
              /\ storage = mv_flushed.store_before
              /\ mv_flushed.result # "Ok"
        /\ (~mv_flushed.ser_failed /\ ~mv_flushed.ingest_failed) =>
              /\ mv_flushed.ingest_calls = 1
              /\ mv_flushed.result = "Ok"
              /\ Len(mv_flushed.batch)
                   = Cardinality(mv_flushed.pending) * SchemaLen
              /\ storage = ingest_batch(mv_flushed.store_before,
                                        mv_flushed.batch)

\* A flush of pending mutations whose ingest_batch failed over a store that
\* already held cells.
C8_Witness ==
    /\ mv_op = "flush"
    /\ mv_flushed.ingest_failed
    /\ mv_flushed.result = "InternalError"
    /\ mv_flushed.pending # {}
    /\ mv_flushed.store_before # EmptyStore
    /\ storage = mv_flushed.store_before

(***************************************************************************)
(* Claims about the managed value state.                                   *)
(***************************************************************************)
\* C9: a ManagedValueState is not dirty right after new, dirty after any
\* apply_batch, not dirty after a flush that returned Ok; after any
\* sequence of new / apply_batch / get_output / flush, is_dirty is true
\* exactly when apply_batch was called since the construction or the last
\* flush.
C9_DirtyCycle ==
    /\ is_dirty <=> agg_applied
    /\ agg_op[1] = "new" => ~is_dirty
    /\ agg_op[1] = "apply_batch" => is_dirty
    /\ agg_op = <<"flush", "Ok">> => ~is_dirty

\* A flush of a dirty state returned Ok and left the state clean.
C9_Witness ==
    /\ agg_op = <<"flush", "Ok">>
    /\ ~is_dirty
    /\ get_output = Some(3)
    /\ Len(write_batch) = 1

\* C10: when the write batch of a flush has been ingested and a new
\* ManagedValueState is constructed from the same keyspace and aggregate
\* descriptor, the new state's output is the output the original state had
\* at that flush, and the new state is not dirty.
C10_RoundTrip ==
    (agg_op[1] = "new" /\ agg_persisted # None) =>
        /\ get_output = agg_persisted[1]
        /\ ~is_dirty

\* The test's scenario: four inserts applied, flushed, ingested, and the
\* state constructed again reports 3.
C10_Witness ==
    /\ agg_op[1] = "new"
    /\ agg_persisted = Some(Some(3))
    /\ get_output = Some(3)
    /\ agg_ops = 4
    /\ ~is_dirty

\* The same round trip for a negative sum and for a NULL sum.
C10_WitnessNegative ==
    /\ agg_op[1] = "new"
    /\ agg_persisted = Some(Some(-1))
    /\ get_output = Some(-1)

C10_WitnessNull ==
    /\ agg_op[1] = "new"
    /\ agg_kind = "sum"
    /\ agg_persisted = Some(None)
    /\ get_output = None

\* a step of ManagedValueState::flush that returned Ok
FlushOkStep == agg_ops' = agg_ops + 1 /\ agg_op' = <<"flush", "Ok">>

\* a step of ManagedValueState::flush on a state that is not dirty
CleanFlushStep == agg_ops' = agg_ops + 1 /\ agg_op'[1] = "flush" /\ ~is_dirty

\* C11: a flush that returns Ok appends exactly one entry to the caller's
\* write batch, the pair (keyspace prefix, Some(serialized current output)):
\* never a deletion, never more than one entry; the entries already in the
\* batch stay as they were, the accumulator is unchanged and the store is
\* not touched.  No other operation of the state adds to the batch, so the
\* batch gains one value per successful flush.
C11_FlushAppendsOne ==
    [][/\ FlushOkStep =>
            /\ Len(write_batch') = Len(write_batch) + 1
            /\ SubSeq(write_batch', 1, Len(write_batch)) = write_batch
            /\ Last(write_batch') =
                   <<agg_prefix, Some(serialize_datum_into(agg_state))>>
            /\ Last(write_batch')[2] # None
            /\ agg_state' = agg_state
            /\ agg_store' = agg_store
       /\ (agg_ops' = agg_ops + 1 /\ agg_op'[1] \notin {"flush", "ingest_batch"})
            => write_batch' = write_batch
       /\ (agg_ops' = agg_ops + 1 /\ agg_op'[1] = "flush" /\ agg_op'[2] # "Ok")
            => write_batch' = write_batch]_vars

\* Two flushes of a dirty state into one batch: the second one returned Ok
\* and its entry follows the first one's, which is still there.
C11_Witness ==
    /\ agg_op = <<"flush", "Ok">>
    /\ Len(write_batch) = 2
    /\ write_batch[1] = <<agg_prefix, Some(serialize_datum_into(Some(3)))>>
    /\ write_batch[2] = <<agg_prefix, Some(serialize_datum_into(Some(4)))>>
    /\ get_output = Some(4)

\* C12: flush on a state that is not dirty completes successfully, appends
\* the current value to the batch and leaves is_dirty false and the
\* accumulator unchanged; it never aborts because the state was clean (an
\* error of get_output or of the serializer is not such an abort).
C12_CleanFlushHarmless ==
    [][CleanFlushStep =>
           /\ agg_op'[2] # "panic"
           /\ agg_op'[2] = "Ok" =>
                  /\ write_batch' =
                         Append(write_batch,
                                <<agg_prefix, Some(serialize_datum_into(agg_state))>>)
                  /\ ~is_dirty'
           /\ agg_state' = agg_state]_vars

\* What holds of a flush on a clean state in either build: a build without
\* debug assertions completes it as the claim says, a build with them
\* panics before anything is written.
C12_CleanFlushByBuild ==
    [][CleanFlushStep =>
           /\ agg_state' = agg_state /\ ~is_dirty'
           /\ debug_assertions =>
                  agg_op'[2] = "panic" /\ write_batch' = write_batch
           /\ (~debug_assertions /\ agg_op'[2] = "Ok") =>
                  write_batch' =
                      Append(write_batch,
                             <<agg_prefix, Some(serialize_datum_into(agg_state))>>)
           /\ ~debug_assertions => agg_op'[2] # "panic"]_vars

(***************************************************************************)
(* Claims about the pinned-snapshot record.                                *)
(***************************************************************************)
\* the entries of s equal to e
Occurrences(s, e) == Cardinality({i \in 1..Len(s) : s[i] = e})

\* the set of epochs a list holds
Range(s) == {s[i] : i \in 1..Len(s)}

\* the key under which the store holds the record of context c
KeyOfContext(c) == <<HUMMOCK_CONTEXT_PINNED_SNAPSHOT_CF_NAME, <<8, c>>>>

\* C13: starting from an empty pinned set, after any sequence of
\* pin_snapshot / unpin_snapshot calls the pinned list holds no epoch twice;
\* pin_snapshot of an epoch already present leaves the record unchanged,
\* and pin_snapshot of an absent epoch adds exactly that one entry.
C13_PinIdempotent ==
    /\ ps_built => NoDuplicates(snapshot_id)
    /\ ps_op[1] = "pin_snapshot" =>
           IF ps_op[2] \in Range(ps_prev)
           THEN snapshot_id = ps_prev
           ELSE snapshot_id = ps_prev \o <<ps_op[2]>>

\* Epoch 1 was pinned while already pinned after epoch 2: nothing changed.
C13_Witness ==
    /\ ps_built
    /\ ps_op = <<"pin_snapshot", 1>>
    /\ ps_prev = <<2, 1>>
    /\ snapshot_id = <<2, 1>>

\* An absent epoch was pinned: it is the one entry added.
C13_WitnessAbsent ==
    /\ ps_built
    /\ ps_op = <<"pin_snapshot", 2>>
    /\ ps_prev = <<1>>
    /\ snapshot_id = <<1, 2>>

\* C14: unpin_snapshot(e) removes at most one entry equal to e.  With e
\* absent the record is unchanged; with e present exactly one occurrence
\* leaves the list and every other pinned epoch stays, in its place; the
\* context id is unchanged; on a record built only through pin / unpin,
\* e is not pinned afterwards.
C14_UnpinOne ==
    [][(ps_ops' = ps_ops + 1 /\ ps_op'[1] = "unpin_snapshot") =>
           LET e == ps_op'[2]
           IN  /\ context_id' = context_id
               /\ e \notin Range(snapshot_id) => snapshot_id' = snapshot_id
               /\ e \in Range(snapshot_id) =>
                      /\ Len(snapshot_id') = Len(snapshot_id) - 1
                      /\ Occurrences(snapshot_id', e)
                             = Occurrences(snapshot_id, e) - 1
                      /\ SelectSeq(snapshot_id', LAMBDA v : v # e)
                             = SelectSeq(snapshot_id, LAMBDA v : v # e)
               /\ ps_built => e \notin Range(snapshot_id')]_vars

\* Epoch 1 was unpinned from a record built by pinning 1 and 2.
C14_Witness ==
    /\ ps_built
    /\ ps_op = <<"unpin_snapshot", 1>>
    /\ ps_prev = <<1, 2>>
    /\ snapshot_id = <<2>>

\* Epoch 1 was unpinned from a loaded record listing it twice: one
\* occurrence is left.
C14_WitnessLoaded ==
    /\ ~ps_built
    /\ ps_op = <<"unpin_snapshot", 1>>
    /\ ps_prev = <<1, 1>>
    /\ snapshot_id = <<1>>

\* C15: update stages exactly one operation, keyed by the record's context
\* id in the pinned-snapshot column family: a Delete when nothing is pinned,
\* else a Put of the whole record.  It does not change the record, does not
\* commit, and leaves the operations already staged in place.
C15_UpdateStagesOne ==
    [][(ps_ops' = ps_ops + 1 /\ ps_op'[1] = "update") =>
           /\ Len(trx') = Len(trx) + 1
           /\ SubSeq(trx', 1, Len(trx)) = trx
           /\ Last(trx') =
                  IF snapshot_id = << >>
                  THEN <<"Delete", KeyOfContext(context_id), None>>
                  ELSE <<"Put", KeyOfContext(context_id),
                         <<8, context_id, 18, Len(snapshot_id)>> \o snapshot_id,
                         None>>
           /\ snapshot_id' = snapshot_id
           /\ context_id' = context_id
           /\ meta_store' = meta_store]_vars

\* An update of the record pinning epoch 1 and, after the unpin, an update
\* of the empty record were staged into one transaction.
C15_Witness ==
    /\ ps_op[1] = "update"
    /\ snapshot_id = << >>
    /\ Len(trx) = 2
    /\ trx[1] = <<"Put", KeyOfContext(context_id), <<8, context_id, 18, 1, 1>>, None>>
    /\ trx[2] = <<"Delete", KeyOfContext(context_id), None>>

\* C16: the store never holds a record with an empty pinned set; after a
\* commit of a transaction into which update staged the record as it is,
\* the store holds a record of the context exactly when something is
\* pinned, and that record is the one held in memory.
C16_NoEmptyRecord ==
    /\ \A k \in DOMAIN meta_store : decode(meta_store[k]).snapshot_id # << >>
    /\ (ps_op = <<"commit", 1>> /\ ps_synced) =>
           /\ KeyOfContext(context_id) \in DOMAIN meta_store
                  <=> snapshot_id # << >>
           /\ snapshot_id # << >> =>
                  decode(meta_store[KeyOfContext(context_id)]) = Record

\* The last pinned epoch was unpinned, the update committed, and the store
\* holds no record of the context any more.
C16_Witness ==
    /\ ps_op = <<"commit", 1>>
    /\ ps_synced
    /\ ps_built
    /\ ps_prev = <<1>>
    /\ snapshot_id = << >>
    /\ KeyOfContext(context_id) \notin DOMAIN meta_store
    /\ ps_ops = 6

\* A commit after which the store holds the record pinning two epochs.
C16_WitnessRecord ==
    /\ ps_op = <<"commit", 1>>
    /\ ps_synced
    /\ snapshot_id = <<2, 1>>
    /\ decode(meta_store[KeyOfContext(context_id)]) = Record

(***************************************************************************)
(* Claims about the keyspace encoder.                                      *)
(***************************************************************************)
\* the keyspace objects alive
KsIds == 1..Len(keyspaces)

\* neither byte string starts with the other
PrefixFree(a, b) == ~IsPrefix(a, b) /\ ~IsPrefix(b, a)

\* C17: root prefixes are injective and never collide.  An executor root
\* is "e" and the big-endian u32 id, a table root is "t", a u16 length and
\* the id string; the roots of two distinct (tag, id) pairs differ and
\* neither is a prefix of the other, so a scan of one root never returns
\* a key written under another root.
C17_RootsDisjoint ==
    /\ \A i \in KsIds :
           ks_origin[i].segs = << >> =>
               LET id == ks_origin[i].root[2]
               IN  IF ks_origin[i].root[1] = "e"
                   THEN /\ Len(keyspaces[i].prefix) = 5
                        /\ keyspaces[i].prefix[1] = 101
                        /\ FromLow4(SubSeq(keyspaces[i].prefix, 2, 5)) = id
                   ELSE /\ keyspaces[i].prefix[1] = 116
                        /\ keyspaces[i].prefix[2] * 256 + keyspaces[i].prefix[3]
                               = Len(keyspaces[i].prefix) - 3
    /\ \A i, j \in KsIds :
           (/\ ks_origin[i].segs = << >>
            /\ ks_origin[j].segs = << >>
            /\ ks_origin[i].root # ks_origin[j].root)
               => PrefixFree(keyspaces[i].prefix, keyspaces[j].prefix)
    /\ (ks_op.name = "scan" /\ ks_op.result = "Ok") =>
           \A n \in 1..Len(ks_op.pairs) : \A w \in ks_written :
               (w[1] = keyspaces[ks_op.ks].store /\ w[2] = ks_op.pairs[n][1])
                   => w[3] = ks_origin[ks_op.ks].root

\* The roots of executors 0 and 256 share a store; a key was written under
\* the first, and an unlimited scan of the second returned nothing.
C17_Witness ==
    /\ Len(keyspaces) = 2
    /\ ks_origin[1] = [root |-> <<"e", 0>>, segs |-> << >>]
    /\ ks_origin[2] = [root |-> <<"e", 256>>, segs |-> << >>]
    /\ keyspaces[1].store = keyspaces[2].store
    /\ ks_written = {<<keyspaces[1].store, <<101, 0, 0, 0, 0, 65>>, <<"e", 0>>>>}
    /\ ks_op.name = "scan" /\ ks_op.ks = 2 /\ ks_op.result = "Ok"
    /\ ks_op.limit = None
    /\ ks_op.pairs = << >>

\* The roots of tables 1 and 10 and of an executor, side by side.
C17_WitnessTables ==
    /\ Len(keyspaces) = 3
    /\ ks_origin[1].root = <<"t", 1>>
    /\ ks_origin[2].root = <<"t", 10>>
    /\ ks_origin[3].root = <<"e", 1>>
    /\ \A i \in KsIds : ks_origin[i].segs = << >>

\* C18: no two logically distinct keyspaces collide: two different
\* sequences of segments pushed onto the same starting prefix give
\* different prefixes, and the encoding of a VariantLength segment never
\* equals the encoding of a FixedLength segment of another keyspace.
C18_SegmentsInjective ==
    \A i, j \in KsIds :
        (/\ ks_origin[i].root = ks_origin[j].root
         /\ ks_origin[i].segs # ks_origin[j].segs)
            => keyspaces[i].prefix # keyspaces[j].prefix

\* two segment sequences of one schema: the same kinds in the same places,
\* and fixed-length segments of the same length
SameSchema(a, b) ==
    /\ Len(a) = Len(b)
    /\ \A n \in 1..Len(a) :
           /\ a[n][1] = b[n][1]
           /\ a[n][1] = "FixedLength" => Len(a[n][2]) = Len(b[n][2])

\* What the encoding does give: keyspaces of one root whose segment
\* sequences follow one schema and differ have different prefixes.
C18_InjectiveWithinSchema ==
    \A i, j \in KsIds :
        (/\ ks_origin[i].root = ks_origin[j].root
         /\ ks_origin[i].segs # ks_origin[j].segs
         /\ SameSchema(ks_origin[i].segs, ks_origin[j].segs))
            => keyspaces[i].prefix # keyspaces[j].prefix

\* Two keyspaces of one schema with different segments.
C18_WitnessWithinSchema ==
    \E i, j \in KsIds :
        /\ ks_origin[i].root = ks_origin[j].root
        /\ ks_origin[i].segs = <<FixedLength(<<65>>)>>
        /\ ks_origin[j].segs = <<FixedLength(<<66>>)>>

\* the encoding of a segment, from its definition in the key layout
EncodingOf(segment) ==
    IF segment[1] = "FixedLength" THEN segment[2]
    ELSE <<Len(segment[2]) \div 256, Len(segment[2]) % 256>> \o segment[2]

\* C19: with_segment returns a new keyspace whose prefix is the receiver's
\* prefix followed by the segment's encoding and never changes the
\* receiver; parent and child then have independent prefixes (a push on
\* one changes no other keyspace) and both read from the same store.
C19_WithSegmentForks ==
    [][/\ (/\ ks_ops' = ks_ops + 1
           /\ ks_op'.name = "with_segment"
           /\ ks_op'.result = "Ok") =>
              LET parent == keyspaces[ks_op'.ks]
                  child == Last(keyspaces')
              IN  /\ Len(keyspaces') = Len(keyspaces) + 1
                  /\ \A j \in KsIds : keyspaces'[j] = keyspaces[j]
                  /\ child.prefix = parent.prefix \o EncodingOf(ks_op'.segment)
                  /\ child.store = parent.store
                  /\ stores' = stores
       /\ (ks_ops' = ks_ops + 1 /\ ks_op'.name = "push") =>
              /\ Len(keyspaces') = Len(keyspaces)
              /\ \A j \in KsIds \ {ks_op'.ks} : keyspaces'[j] = keyspaces[j]
              /\ ks_op'.result = "Ok" =>
                     keyspaces'[ks_op'.ks] =
                         [store |-> keyspaces[ks_op'.ks].store,
                          prefix |-> keyspaces[ks_op'.ks].prefix
                                         \o EncodingOf(ks_op'.segment)]
       /\ (ks_ops' = ks_ops + 1 /\ ks_op'.name = "get") =>
              ks_op'.value =
                  StateStore_get(stores[keyspaces[ks_op'.ks].store],
                                 keyspaces[ks_op'.ks].prefix \o ks_op'.key)]_vars

\* A child was forked from the root of executor 0 with a variant segment,
\* then a fixed segment was pushed onto the parent: the child's prefix is
\* still the root's followed by the variant segment's encoding.
C19_Witness ==
    /\ Len(keyspaces) = 2
    /\ ks_origin[1] = [root |-> <<"e", 0>>, segs |-> <<FixedLength(<<66>>)>>]
    /\ ks_origin[2] = [root |-> <<"e", 0>>, segs |-> <<VariantLength(<<65>>)>>]
    /\ ks_op.name = "push" /\ ks_op.ks = 1
    /\ keyspaces[1].prefix = <<101, 0, 0, 0, 0, 66>>
    /\ keyspaces[2].prefix = <<101, 0, 0, 0, 0, 0, 1, 65>>
    /\ keyspaces[1].store = keyspaces[2].store

\* The parent wrote a key that lies under the child's prefix, and the child
\* read it: both read from the same store.
C19_WitnessSharedStore ==
    /\ Len(keyspaces) = 2
    /\ ks_origin[2].segs = <<FixedLength(<<65>>)>>
    /\ ks_written = {<<keyspaces[1].store, keyspaces[1].prefix \o <<65>>,
                       ks_origin[1].root>>}
    /\ ks_op.name = "get" /\ ks_op.ks = 2 /\ ks_op.key = << >>
    /\ ks_op.value = Some(KsValue)

\* C20: scan_strip_prefix(limit) returns the pairs scan(limit) returns on
\* the same store contents - as many, in the same order, with the same
\* values - each key without its first prefix-length bytes, so that the
\* prefix followed by the returned key is the scanned key; a store error of
\* the scan is returned as it is.
C20_StripMatchesScan ==
    ks_op.name = "scan_strip_prefix" =>
        LET ks == keyspaces[ks_op.ks]
            scanned == StateStore_scan(stores[ks.store], ks.prefix, ks_op.limit)
        IN  /\ ks_op.result \in {"Ok", "StoreError"}
            /\ ks_op.result = "StoreError" => DOMAIN ks_op = DOMAIN [name |-> 0, ks |-> 0, limit |-> 0, result |-> 0]
            /\ ks_op.result = "Ok" =>
                   /\ Len(ks_op.pairs) = Len(scanned)
                   /\ \A n \in 1..Len(scanned) :
                          /\ ks.prefix \o ks_op.pairs[n][1] = scanned[n][1]
                          /\ Len(ks_op.pairs[n][1])
                                 = Len(scanned[n][1]) - Len(ks.prefix)
                          /\ ks_op.pairs[n][2] = scanned[n][2]

\* Two keys under the root of executor 1 were scanned and stripped: the
\* bare prefix gave the empty key, the other its one-byte suffix.
C20_Witness ==
    /\ ks_op.name = "scan_strip_prefix" /\ ks_op.result = "Ok"
    /\ ks_op.limit = None
    /\ keyspaces[ks_op.ks].prefix = <<101, 0, 0, 0, 1>>
    /\ ks_op.pairs = << << << >>, KsValue >>, << <<65>>, KsValue >> >>

\* The same scan with a limit of one pair, and one that met a store error.
C20_WitnessLimit ==
    /\ ks_op.name = "scan_strip_prefix" /\ ks_op.result = "Ok"
    /\ ks_op.limit = Some(1)
    /\ Cardinality(DOMAIN stores[keyspaces[ks_op.ks].store]) = 2
    /\ ks_op.pairs = << << << >>, KsValue >> >>

C20_WitnessStoreError ==
    /\ ks_op.name = "scan_strip_prefix" /\ ks_op.result = "StoreError"
    /\ stores[keyspaces[ks_op.ks].store] # EmptyStore

(***************************************************************************)
(* Further claims about the managed mview state.                           *)
(***************************************************************************)
\* what a get of cell i of pk must return, given the mutations of the
\* flushes that returned Ok
CommittedCell(pk, i) ==
    IF mv_committed[pk] = None THEN None
    ELSE Some(<<1>> \o I32Bytes(mv_committed[pk][1][i + 1]))

\* C21: for one caller issuing put / delete / flush, a read through the
\* same store (a get of a cell key, or a scan of the view's prefix) issued
\* after a flush that returned Ok reflects every mutation of that flush and
\* of all earlier flushes that returned Ok; a later flush's write or
\* deletion of a cell overrides the value an earlier flush gave it.
C21_ReadYourFlushedWrites ==
    /\ \A pk \in PkRows : \A i \in 0..(SchemaLen - 1) :
           StateStore_get(storage, CellKey(pk, i)) = CommittedCell(pk, i)
    /\ LET pairs == StateStore_scan(storage, mv_prefix, None)
       IN  /\ {pairs[n][1] : n \in 1..Len(pairs)} =
                  {CellKey(pk, i) : pk \in {r \in PkRows : CommittedCell(r, 0) # None},
                                    i \in 0..(SchemaLen - 1)}
           /\ \A n \in 1..Len(pairs) :
                  StateStore_get(storage, pairs[n][1]) = Some(pairs[n][2])

\* A flush returned Ok after an earlier one: the cell of key 1 the earlier
\* flush wrote as 1 now reads 2, and the cells of key 2 it wrote are gone.
C21_Witness ==
    /\ mv_op = "flush"
    /\ mv_flushed.result = "Ok"
    /\ StateStore_get(mv_flushed.store_before, CellKey(PkRow(1), 1))
           = Some(serialize_cell(1))
    /\ StateStore_get(storage, CellKey(PkRow(1), 1)) = Some(serialize_cell(2))
    /\ StateStore_get(mv_flushed.store_before, CellKey(PkRow(2), 0)) # None
    /\ StateStore_get(storage, CellKey(PkRow(2), 0)) = None

\* C22: put and delete only buffer.  A call changes nothing but the
\* memtable entry of the given primary key: the pending entries of the
\* other keys and the store are as before (prefix and schema are fixed at
\* construction), and no step other than a flush changes the store.
C22_PutDeleteOnlyBuffer ==
    [][/\ (mv_ops' = mv_ops + 1 /\ mv_op' \in {"put", "delete"}) =>
              /\ storage' = storage
              /\ \E pk \in PkRows :
                     /\ mv_window'[pk] # None
                     /\ mv_window' = [mv_window EXCEPT ![pk] = mv_window'[pk]]
                     /\ mv_op' = "delete" <=> mv_window'[pk] = Some(None)
                     /\ EntriesOf(memtable', pk) = {<<pk, mv_window'[pk][1]>>}
                     /\ \A other \in PkRows \ {pk} :
                            EntriesOf(memtable', other) = EntriesOf(memtable, other)
       /\ (mv_ops' = mv_ops + 1 /\ mv_op' # "flush") => storage' = storage]_vars

\* A put of a new row for key 1 while another key is pending: the store
\* still holds the cell an earlier flush wrote for key 1.
C22_Witness ==
    /\ mv_op = "put"
    /\ Cardinality(memtable) = 2
    /\ <<PkRow(1), Some(ValueRow(1, 2))>> \in memtable
    /\ StateStore_get(storage, CellKey(PkRow(1), 1)) = Some(serialize_cell(1))

\* The same for a delete: the cells of the deleted key are still stored.
C22_WitnessDelete ==
    /\ mv_op = "delete"
    /\ <<PkRow(1), None>> \in memtable
    /\ StateStore_get(storage, CellKey(PkRow(1), 1)) = Some(serialize_cell(1))

(***************************************************************************)
(* Further claims about the keyspace encoder.                              *)
(***************************************************************************)
\* a push or with_segment of a variant segment longer than 65535 bytes
PushedTooLong ==
    /\ ks_op.name \in {"push", "with_segment"}
    /\ ks_op.kind = "VariantLength"
    /\ ks_op.length > 65535

\* C23: pushing a VariantLength segment longer than 65535 bytes fails with
\* an encoding error value handed to the caller - it is not swallowed and
\* the length is not wrapped to 16 bits - and the prefix is left without a
\* partly written segment.
C23_TooLongIsEncodingError ==
    PushedTooLong =>
        /\ ks_op.result = "EncodingError"
        /\ keyspaces[ks_op.ks].prefix
               = IF ks_origin[ks_op.ks].root[1] = "e"
                 THEN executor_root_prefix(ks_origin[ks_op.ks].root[2])
                 ELSE table_root_prefix(ks_origin[ks_op.ks].root[2])

\* What the code does with such a segment: the call panics before a byte
\* is written, so no keyspace changes and no length is ever wrapped.
C23_TooLongPanics ==
    [][(/\ ks_ops' = ks_ops + 1
        /\ ks_op'.name \in {"push", "with_segment"}
        /\ ks_op'.kind = "VariantLength"
        /\ ks_op'.length > 65535) =>
           /\ ks_op'.result = "panic"
           /\ keyspaces' = keyspaces]_vars

(***************************************************************************)
(* Claims about the exchange source.                                       *)
(***************************************************************************)
\* the take_data calls that each took an item off the stream
TakenItems == IF Len(xs_taken) < Len(xs_sent) THEN Len(xs_taken) ELSE Len(xs_sent)

\* C24: successive take_data calls return Some(chunk) once for each
\* response the remote task sent, in the order sent, and None once the
\* stream is exhausted; a stream item carrying an error is returned as an
\* error, not as the end of the stream.
C24_ChunkPerResponse ==
    /\ \A n \in 1..TakenItems :
           IF xs_sent[n].ok
           THEN xs_taken[n][1] = "Ok" /\ xs_taken[n][2] # None
           ELSE xs_taken[n][1] = "Err"
    /\ \A n \in (TakenItems + 1)..Len(xs_taken) :
           xs_closed /\ xs_taken[n] = <<"Ok", None>>

\* the chunk a response holds when its record batch decodes
ChunkOf(item) ==
    IF item.record_batch = None THEN <<"DataChunk", 0>>
    ELSE <<"DataChunk", item.record_batch[1].id>>

\* whether the record batch of a response decodes
Decodes(item) == item.record_batch = None \/ item.record_batch[1].valid

\* C24, amended: the n-th take_data call takes the n-th item sent.  It
\* returns Some(chunk) with the chunk of that response when the record
\* batch decodes, an error when it does not decode or when the item carries
\* an error status; once every item is taken and the stream has ended,
\* take_data returns None.
C24_ItemPerCall ==
    /\ \A n \in 1..TakenItems :
           xs_taken[n] =
               IF ~xs_sent[n].ok THEN <<"Err", "failed to take data from stream">>
               ELSE IF Decodes(xs_sent[n]) THEN <<"Ok", Some(ChunkOf(xs_sent[n]))>>
               ELSE <<"Err", "from_protobuf">>
    /\ \A n \in (TakenItems + 1)..Len(xs_taken) :
           xs_closed /\ xs_taken[n] = <<"Ok", None>>
    /\ Len(xs_stream) = Len(xs_sent) - TakenItems
    /\ xs_stream = SubSeq(xs_sent, TakenItems + 1, Len(xs_sent))

\* Two chunks and an error status were sent and taken in that order, and
\* the call after them returned None.
C24_Witness ==
    /\ Len(xs_sent) = 3
    /\ xs_taken = << <<"Ok", Some(<<"DataChunk", 2>>)>>,
                     <<"Ok", Some(<<"DataChunk", 1>>)>>,
                     <<"Err", "failed to take data from stream">>,
                     <<"Ok", None>> >>

\* A response whose record batch does not decode was taken: an error.
C24_WitnessUndecodable ==
    /\ Len(xs_taken) = 2
    /\ xs_sent[2] = [ok |-> TRUE, record_batch |-> Some([id |-> 1, valid |-> FALSE])]
    /\ xs_taken[2] = <<"Err", "from_protobuf">>

(***************************************************************************)
(* Claims about the epoch generator in normal operation and at overflow.   *)
(***************************************************************************)
\* the epochs made from the current run of equal clock readings: the
\* generate() calls, and Epoch::init when the run began with it
EpochsInMillisecond == ms_calls + (IF ms_init THEN 1 ELSE 0)

\* C25: while the clock has never gone back and no millisecond has had 2^16
\* generate() calls, the epoch generate() returned has physical_time() equal
\* to the millisecond the call read, its logical component is the number of
\* epochs made earlier in that millisecond, and it is strictly greater than
\* the epoch the call before returned, within a millisecond and across a
\* millisecond boundary.
C25_NormalOperation ==
    (normal_operation /\ gen_calls >= 1) =>
        /\ physical_time(current_epoch) = last_now
        /\ logical(current_epoch) = EpochsInMillisecond - 1
        /\ gen_calls = 2 => current_epoch > prev_ret

\* The last call before the logical component would overflow, in the
\* millisecond Epoch::init read.
C25_Witness ==
    /\ normal_operation
    /\ ms_init
    /\ ms_calls = LogicalRange - 1
    /\ logical(current_epoch) = LogicalRange - 1
    /\ physical_time(current_epoch) = last_now

\* A call across a millisecond boundary in normal operation.
C25_WitnessBoundary ==
    /\ normal_operation
    /\ gen_calls = 2
    /\ last_now > prev_now
    /\ logical(prev_ret) > 0
    /\ current_epoch > prev_ret

\* C26: once more than 2^16 generate() calls have read the same millisecond
\* in a row, one of them has returned, without an error, an epoch whose
\* physical_time() is later than the millisecond it read.
C26_OverflowIntoPhysical ==
    ms_calls > LogicalRange => ms_overflowed

\* The call number 2^16 + 1 of a millisecond returned the first epoch of the
\* next millisecond.
C26_Witness ==
    /\ ms_calls = LogicalRange + 1
    /\ ~ms_init
    /\ physical_time(current_epoch) = last_now + 1
    /\ logical(current_epoch) = 0
    /\ current_epoch = prev_ret + 1

(***************************************************************************)
(* Claims about failing operations of the managed aggregation state.       *)
(***************************************************************************)
\* a step of ManagedValueState::apply_batch, whatever it returned
ApplyStep == agg_ops' = agg_ops + 1 /\ agg_op'[1] = "apply_batch"

\* a step of ManagedValueState::flush that returned an error
FlushErrStep == agg_ops' = agg_ops + 1 /\ agg_op' = <<"flush", "Err">>

\* C27: no failing operation leaves the state marked clean while changes
\* that were not flushed may exist: after apply_batch is_dirty is true, also
\* when the internal state returned an error; a flush that returns an error
\* (from get_output or from the serializer) leaves is_dirty as it was, so
\* true on a dirty state, and leaves the caller's write batch as it was.
C27_FailuresKeepDirty ==
    [][/\ ApplyStep => is_dirty'
       /\ FlushErrStep =>
              /\ is_dirty' = is_dirty
              /\ write_batch' = write_batch
              /\ agg_state' = agg_state
       /\ agg_applied' => is_dirty']_vars

\* apply_batch returned an error after the internal state applied a part of
\* the batch, and the state is dirty.
C27_Witness ==
    /\ agg_op = <<"apply_batch", "Err">>
    /\ is_dirty
    /\ agg_applied

\* A flush of a dirty state failed: the state is still dirty and the batch
\* still holds only the entry of the flush before.
C27_WitnessFlush ==
    /\ agg_op = <<"flush", "Err">>
    /\ is_dirty
    /\ Len(write_batch) = 1
    /\ agg_ops = 4

(***************************************************************************)
(* Claims about the batch of an mview flush.                               *)
(***************************************************************************)
\* the keys of a batch, in the order of its entries
BatchKeys(batch) == [i \in 1..Len(batch) |-> batch[i][1]]

\* C28: every batch that flush passes to ingest_batch holds each cell key
\* at most once, one entry per pending primary key and column index, so the
\* store after the flush is the same for every order in which the drain
\* can yield the entries of the memtable.
C28_OneEntryPerCell ==
    mv_flushed.ingest_calls > 0 =>
        /\ NoDuplicates(BatchKeys(mv_flushed.batch))
        /\ Range(BatchKeys(mv_flushed.batch)) =
               {CellKey(e[1], cell_idx) :
                    e \in mv_flushed.pending, cell_idx \in 0..(SchemaLen - 1)}
        /\ Len(mv_flushed.batch) = Cardinality(mv_flushed.pending) * SchemaLen
        /\ mv_flushed.result = "Ok" =>
               \A o \in DrainOrders(mv_flushed.pending) :
                   storage = ingest_batch(mv_flushed.store_before, FlushBatch(o))

\* A flush of three pending rows, a deletion among them, was ingested:
\* six entries with six keys, over a store that held rows already.
C28_Witness ==
    /\ mv_op = "flush"
    /\ mv_flushed.result = "Ok"
    /\ Cardinality(mv_flushed.pending) = 3
    /\ \E e \in mv_flushed.pending : e[2] = None
    /\ \E e \in mv_flushed.pending : e[2] # None
    /\ Len(mv_flushed.batch) = 3 * SchemaLen
    /\ mv_flushed.store_before # EmptyStore
    /\ storage # mv_flushed.store_before

(***************************************************************************)
(* Claims about wait_tcp.                                                  *)
(***************************************************************************)
\* C29 as stated, the part on errors: an error is returned only after a
\* connection attempt, and without timeout and without detect_failure
\* wait_tcp returns only Ok.
C29_ErrorOnlyAfterAttempt ==
    /\ wt_result = "Err" => wt_attempts >= 1
    /\ (wt_timeout = None /\ ~wt_detect_failure /\ wt_pc = "done") =>
           wt_result = "Ok"

\* what holds whenever wait_tcp has returned or is between two iterations
WaitTcpOutcome ==
    /\ wt_result = "Ok" => wt_attempts >= 1
    /\ (wt_result = "Err" /\ wt_cause \notin {"parse", "write"}) =>
           wt_attempts >= 1
    /\ wt_cause = "parse" => ~wt_addr_ok /\ wt_attempts = 0
    /\ wt_cause = "timeout" => TimedOut(wt_elapsed, wt_timeout)
    /\ wt_cause \in {"exited", "read"} => wt_detect_failure /\ wt_file
    /\ (wt_pc = "loop" /\ wt_attempts >= 1 /\ wt_timeout # None) =>
           wt_checked < wt_timeout[1]
    /\ (wt_timeout = None /\ ~wt_detect_failure /\ wt_pc = "done") =>
           wt_result = "Ok" \/ wt_cause \in {"parse", "write"}

\* C29, amended: wait_tcp called with Some(timeout) always eventually
\* returns.  It returns Ok as soon as a connection attempt succeeds.  It
\* returns an error before any attempt when the server address does not
\* parse or the first line cannot be written, and after a failed attempt
\* when the retry line cannot be written, when the elapsed time has reached
\* the timeout, or, with detect_failure, when the failure file exists.  An
\* error of another kind than these of parsing and writing is returned only
\* after a connection attempt, and with timeout None and detect_failure
\* false wait_tcp returns only Ok or such an error of parsing or writing.
C29_Returns ==
    /\ [](WaitTcpOutcome)
    /\ (wt_timeout # None) ~> (wt_pc = "done")

\* Two attempts failed, the second one saw the timeout of 2 s reached.
C29_Witness ==
    /\ wt_pc = "done"
    /\ wt_result = "Err"
    /\ wt_cause = "timeout"
    /\ wt_timeout = Some(2)
    /\ wt_attempts = 2

\* The third attempt succeeded, with no timeout given.
C29_WitnessOk ==
    /\ wt_result = "Ok"
    /\ wt_timeout = None
    /\ wt_attempts = 3

\* The failure file was found after a failed attempt.
C29_WitnessExited ==
    /\ wt_result = "Err"
    /\ wt_cause = "exited"
    /\ wt_timeout = None
    /\ wt_attempts >= 1

\* The address did not parse: an error with no attempt made.
C29_WitnessParse ==
    /\ wt_result = "Err"
    /\ wt_cause = "parse"
    /\ wt_attempts = 0

(***************************************************************************)
(* Claims about the Kafka split reader.                                    *)
(***************************************************************************)
\* the latest next() took a chunk off the partition queue
TookChunk == kr_result # <<"none">> /\ kr_chunk # << >>

\* the first item of the latest chunk at or after the stop offset, or
\* Len + 1 when there is none or the stop offset is not numeric
FirstAtStop ==
    LET at == {i \in 1..Len(kr_chunk) :
                  /\ kr_chunk[i].ok
                  /\ stop_offset[1] = "Offset"
                  /\ kr_chunk[i].offset >= stop_offset[2]}
    IN  IF at = {} THEN Len(kr_chunk) + 1
        ELSE CHOOSE i \in at : \A j \in at : i <= j

\* the first error item of the latest chunk, or Len + 1 when there is none
FirstError ==
    LET at == {i \in 1..Len(kr_chunk) : ~kr_chunk[i].ok}
    IN  IF at = {} THEN Len(kr_chunk) + 1
        ELSE CHOOSE i \in at : \A j \in at : i <= j

IsMessage(item) == item.ok

\* the messages among the items before item n of the latest chunk, in order
MessagesBefore(n) ==
    LET msgs == SelectSeq(SubSeq(kr_chunk, 1, n - 1), IsMessage)
    IN  [i \in 1..Len(msgs) |->
            [payload |-> <<"payload", msgs[i].offset>>,
             offset |-> msgs[i].offset]]

\* C30 as stated: a call that took a chunk returns the messages before the
\* first one at or after a numeric stop offset, and every message of the
\* chunk when there is no such message or no numeric stop offset.
C30_ReturnsUpToStop ==
    TookChunk => kr_result = <<"Ok", Some(MessagesBefore(FirstAtStop))>>

\* C30, amended: next never returns a message whose offset is at or after
\* a numeric stop offset.  When no item of the chunk before the first such
\* message is an error, next unassigns the consumer at that message and, if
\* the unassignment succeeds, returns the messages before it, in order,
\* dropping it and the rest of the chunk; if the unassignment fails, next
\* returns that error.  When an item is an error before any such message,
\* next returns that error and no message.  With no such message and no
\* error item, so always without a numeric stop offset and without error
\* items, it returns every message of the chunk in order.
C30_StopOffset ==
    /\ (kr_result[1] = "Ok" /\ kr_result[2] # None /\ stop_offset[1] = "Offset") =>
           \A i \in 1..Len(kr_result[2][1]) :
               kr_result[2][1][i].offset < stop_offset[2]
    /\ TookChunk =>
           kr_result =
               IF FirstError < FirstAtStop THEN <<"Err", "message">>
               ELSE IF FirstAtStop <= Len(kr_chunk) /\ ~kr_assign_ok
               THEN <<"Err", "assign">>
               ELSE <<"Ok", Some(MessagesBefore(FirstAtStop))>>
    /\ (TookChunk /\ kr_assigned) =>
           (FirstAtStop > Len(kr_chunk) \/ kr_result[1] = "Err")
    /\ (TookChunk /\ kr_result[1] = "Ok" /\ FirstAtStop <= Len(kr_chunk)) =>
           ~kr_assigned

\* A chunk of three messages with the stop offset at the second one: the
\* first message is returned and the consumer is unassigned.
C30_Witness ==
    /\ Len(kr_chunk) = 3
    /\ stop_offset = <<"Offset", 2>>
    /\ FirstAtStop = 2
    /\ kr_result = <<"Ok", Some(MessagesBefore(2))>>
    /\ kr_result[2][1][1].offset < 2
    /\ ~kr_assigned

\* Without a numeric stop offset the whole chunk is returned.
C30_WitnessNoStop ==
    /\ Len(kr_chunk) = 3
    /\ stop_offset = <<"Latest">>
    /\ kr_result[1] = "Ok"
    /\ Len(kr_result[2][1]) = 3
    /\ kr_assigned

\* The unassignment failed: an error, the messages before are not returned.
C30_WitnessAssignFails ==
    /\ Len(kr_chunk) = 2
    /\ FirstAtStop = 2
    /\ kr_result = <<"Err", "assign">>
    /\ kr_assigned

====
